---------------------------- MODULE Spec2Model ----------------------------
(***************************************************************************)
(* Model of APGPA.py (transcript and graduation-requirement tracker):      *)
(* the GPA aggregator calculate_gpa, the requirement tracker               *)
(* (Student, update_student_data, check_graduation), the course-name       *)
(* resolver find_best_match and the score normaliser parse_score.          *)
(*                                                                         *)
(* Conventions.                                                            *)
(*  - GPA points are kept in tenths (4.3 is 43), so that every sum is an   *)
(*    integer; a GPA value is the fraction num/den with den > 0.           *)
(*  - A Python exception leaving a function is the result [fault |-> TRUE].*)
(*  - A dictionary key that is absent from a course record is the value    *)
(*    Absent.                                                              *)
(***************************************************************************)
EXTENDS Integers, Sequences, FiniteSets, TLC

VARIABLES
    course_entries,   \* SemesterFrame.course_entries of the six term frames
    student,          \* GradeTracker.student (its requirements)
    failed_reasons,   \* value returned by the last check_graduation
    grades,           \* argument `grades` of calculate_gpa
    gpa_args,         \* arguments specific_grade, specific_semester
    gpa,              \* value returned by calculate_gpa
    m_args,           \* arguments of find_best_match
    m_result,         \* value returned by find_best_match
    score_value,      \* argument of parse_score
    parsed,           \* value returned by parse_score
    merge_dialog,     \* Merge TGRT Files dialog: semester_file_paths, output_file
    merged_data,      \* content of the file on_merge wrote
    op                \* the operation that produced the current state

vars == <<course_entries, student, failed_reasons, grades, gpa_args, gpa,
          m_args, m_result, score_value, parsed, merge_dialog, merged_data, op>>

gui_vars == <<course_entries, student, failed_reasons>>
gpa_vars == <<grades, gpa_args, gpa>>
match_vars == <<m_args, m_result>>
score_vars == <<score_value, parsed>>
merge_vars == <<merge_dialog, merged_data>>

-----------------------------------------------------------------------------
(* Generic helpers *)

None == "None"
Absent == "<absent>"
NotComputed == [computed |-> FALSE]

RECURSIVE SumSeq(_)
SumSeq(s) == IF s = <<>> THEN 0 ELSE Head(s) + SumSeq(Tail(s))

RECURSIVE Concat(_)
Concat(ss) == IF ss = <<>> THEN <<>> ELSE Head(ss) \o Concat(Tail(ss))

Range(s) == {s[i] : i \in DOMAIN s}

RemoveAt(s, i) == [j \in 1..(Len(s) - 1) |-> IF j < i THEN s[j] ELSE s[j + 1]]

-----------------------------------------------------------------------------
(* Static tables *)

\* (mutant) the AP band of 4.0 starts at 91, which leaves 90 in no band, and
\* the CNCC band of 3.0 ends at 85, which puts 85 in two bands
GRADE_SCALE_Gap ==
    [AP |-> << [low |-> 97, high |-> 100, points |-> 43],
               [low |-> 91, high |-> 96,  points |-> 40],
               [low |-> 80, high |-> 89,  points |-> 35],
               [low |-> 70, high |-> 79,  points |-> 30],
               [low |-> 60, high |-> 69,  points |-> 20],
               [low |-> 0,  high |-> 59,  points |-> 0] >>,
     CNCC |-> << [low |-> 97, high |-> 100, points |-> 43],
                 [low |-> 85, high |-> 96,  points |-> 40],
                 [low |-> 70, high |-> 85,  points |-> 30],
                 [low |-> 60, high |-> 69,  points |-> 20],
                 [low |-> 0,  high |-> 59,  points |-> 0] >>]

\* GRADE_SCALE: the bands of each scale in dictionary order, points in tenths
GRADE_SCALE ==
    [AP |-> << [low |-> 97, high |-> 100, points |-> 43],
               [low |-> 90, high |-> 96,  points |-> 40],
               [low |-> 80, high |-> 89,  points |-> 35],
               [low |-> 70, high |-> 79,  points |-> 30],
               [low |-> 60, high |-> 69,  points |-> 20],
               [low |-> 0,  high |-> 59,  points |-> 0] >>,
     CNCC |-> << [low |-> 97, high |-> 100, points |-> 43],
                 [low |-> 85, high |-> 96,  points |-> 40],
                 [low |-> 70, high |-> 84,  points |-> 30],
                 [low |-> 60, high |-> 69,  points |-> 20],
                 [low |-> 0,  high |-> 59,  points |-> 0] >>]

\* GRADUATION_REQUIREMENTS in dictionary (insertion) order
GRADUATION_REQUIREMENTS ==
  << [subject |-> "Chinese", semesters |-> 6, courses |-> <<"Chinese">>],
     [subject |-> "Chinese_Social_Studies", semesters |-> 3,
      courses |-> <<"Chinese History", "Chinese Geography", "Chinese Politics">>],
     [subject |-> "English", semesters |-> 6,
      courses |-> <<"Pre-AP English", "Pre-AP English Honors", "AP Seminar 10",
                    "English 11 Honors", "English 12 Literature Honors",
                    "AP English Language and Composition", "AP English Literature">>],
     [subject |-> "Mathematics", semesters |-> 6,
      courses |-> <<"Pre-Calculus", "AP Pre-Calculus", "AP Calculus AB",
                    "AP Calculus BC", "AP Statistics", "Calculus III",
                    "Differential Equations", "Probability Theory">>],
     [subject |-> "Social_Science", semesters |-> 4,
      courses |-> <<"Advanced Economics", "Developmental Psychology Seminar",
                    "Political Science & Law", "AP Microeconomics",
                    "AP Micro/Macroeconomics", "AP Psychology",
                    "AP Environmental Science", "Intro to Psychology",
                    "Sociology", "Spanish I", "Spanish II",
                    "AP Spanish Language and Culture", "German I",
                    "German II", "German III", "French I", "French II",
                    "AP French", "Japanese I", "Japanese II",
                    "Japanese III", "Korean", "Russian">>],
     [subject |-> "Science", semesters |-> 6,
      courses |-> <<"Biology", "Biology Honors", "AP Biology",
                    "Neuropathology", "Marine Biology", "Chemistry Honors",
                    "AP Chemistry", "Physics", "AP Physics C: Mechanics",
                    "AP Physics C: E/M", "AP Physics 1", "AP Physics 2",
                    "Advanced Physics">>],
     [subject |-> "Technology", semesters |-> 2, courses |-> <<"Technology">>],
     [subject |-> "Fine_And_Performing_Arts", semesters |-> 2,
      courses |-> <<"AP 3-D Art and Design", "AP 2-D Art and Design",
                    "AP Drawing", "Visual Arts", "Visual Arts II",
                    "Photography", "AP Music Theory",
                    "Instrumental Ensemble I (Y10 Introduction)",
                    "Instrumental Ensemble I (CNCC Semester Introduction)",
                    "Instrumental Ensemble II", "Vocal Ensemble I",
                    "Vocal Ensemble II", "Guitar I", "Guitar II",
                    "Dance", "Dance I", "Dance II", "Drama I",
                    "Drama II", "Independent Video Production">>],
     [subject |-> "Physical_Education", semesters |-> 6, courses |-> <<"PE">>],
     [subject |-> "Electives", semesters |-> 6,
      courses |-> <<"AP Computer Science A", "AP Computer Science Principles",
                    "Graphics Programming in Java", "AP Seminar", "AP Research",
                    "Entrepreneurship", "Web-Development", "Speech and Debate">>],
     [subject |-> "Interdisciplinary_Seminar", semesters |-> 1,
      courses |-> <<"Interdisciplinary Research Seminar">>] >>

Subjects == {GRADUATION_REQUIREMENTS[i].subject : i \in DOMAIN GRADUATION_REQUIREMENTS}

\* GRADUATION_REQUIREMENTS[subject]
Requirement(subject) ==
    CHOOSE r \in Range(GRADUATION_REQUIREMENTS) : r.subject = subject

NON_GPA_SUBJECTS == <<"Technology", "Physical_Education", "Fine_And_Performing_Arts">>

\* the grades dictionary built by Student.__init__ / GradeTracker.calculate_gpa:
\* years and terms in insertion order
Years == <<"10", "11", "12">>
Semesters == <<"Fall", "Spring">>

-----------------------------------------------------------------------------
(* Score normalisation: round_score, parse_score                            *)
(*                                                                          *)
(* Python values: None, an int, a float, a str (a sequence of one-character *)
(* strings) or a value of another type.  A finite float is the exact        *)
(* fraction n/d (d a power of ten); inf and nan are separate values.  The   *)
(* inputs used have at most three decimal digits, for which float rounding  *)
(* and exact rounding give the same integer.                                *)

PyNone == [t |-> "none"]
PyInt(v) == [t |-> "int", n |-> v, d |-> 1]
PyFloat(n, d) == [t |-> "float", n |-> n, d |-> d]
PyInf(sign) == [t |-> "float", n |-> sign, d |-> 0]
PyNaN == [t |-> "float", n |-> 0, d |-> 0]
PyStr(chars) == [t |-> "str", s |-> chars]
PyOther == [t |-> "object"]

ValueError == [err |-> "ValueError"]
TypeError == [err |-> "TypeError"]
ZeroDivisionError == [err |-> "ZeroDivisionError"]
IsErr(x) == "err" \in DOMAIN x

Digits == {"0", "1", "2", "3", "4", "5", "6", "7", "8", "9"}
DigitVal == ("0" :> 0) @@ ("1" :> 1) @@ ("2" :> 2) @@ ("3" :> 3) @@ ("4" :> 4) @@
            ("5" :> 5) @@ ("6" :> 6) @@ ("7" :> 7) @@ ("8" :> 8) @@ ("9" :> 9)
Whitespace == {" "}

\* str.strip(): leading and trailing whitespace removed
RECURSIVE LStrip(_)
LStrip(s) == IF s # <<>> /\ Head(s) \in Whitespace THEN LStrip(Tail(s)) ELSE s
RECURSIVE RStrip(_)
RStrip(s) ==
    IF s # <<>> /\ s[Len(s)] \in Whitespace THEN RStrip(SubSeq(s, 1, Len(s) - 1)) ELSE s
Strip(s) == RStrip(LStrip(s))

\* str.replace(c, ""): every occurrence of the character removed
RECURSIVE RemoveChar(_, _)
RemoveChar(s, c) ==
    IF s = <<>> THEN <<>>
    ELSE IF Head(s) = c THEN RemoveChar(Tail(s), c)
    ELSE <<Head(s)>> \o RemoveChar(Tail(s), c)

\* value of a digit string read as a decimal integer
RECURSIVE DigitsValue(_)
DigitsValue(s) ==
    IF s = <<>> THEN 0 ELSE 10 * DigitsValue(SubSeq(s, 1, Len(s) - 1)) + DigitVal[s[Len(s)]]

RECURSIVE Pow10(_)
Pow10(k) == IF k = 0 THEN 1 ELSE 10 * Pow10(k - 1)

AllDigits(s) == \A i \in DOMAIN s : s[i] \in Digits

LowerWord(s) ==
    [i \in DOMAIN s |-> CASE s[i] = "I" -> "i" [] s[i] = "N" -> "n" [] s[i] = "F" -> "f"
                          [] s[i] = "A" -> "a" [] s[i] = "T" -> "t" [] s[i] = "Y" -> "y"
                          [] OTHER -> s[i]]

\* float(str) for text without exponent and without underscores: optional
\* surrounding whitespace, optional sign, then inf / infinity / nan or
\* digits with at most one point and at least one digit
ParseUnsigned(body) ==
    IF LowerWord(body) \in { <<"i","n","f">>, <<"i","n","f","i","n","i","t","y">> } THEN PyInf(1)
    ELSE IF LowerWord(body) = <<"n","a","n">> THEN PyNaN
    ELSE LET points == { i \in DOMAIN body : body[i] = "." } IN
         IF Cardinality(points) > 1 THEN ValueError
         ELSE LET pt == IF points = {} THEN Len(body) + 1 ELSE CHOOSE i \in points : TRUE
                  ip == SubSeq(body, 1, pt - 1)
                  fp == SubSeq(body, pt + 1, Len(body))
              IN IF ~AllDigits(ip) \/ ~AllDigits(fp) \/ (ip = <<>> /\ fp = <<>>)
                 THEN ValueError
                 ELSE PyFloat(DigitsValue(ip) * Pow10(Len(fp)) + DigitsValue(fp), Pow10(Len(fp)))

ParseFloat(chars) ==
    LET s == Strip(chars) IN
    IF s = <<>> THEN ValueError
    ELSE IF Head(s) \in {"+", "-"}
         THEN LET u == ParseUnsigned(Tail(s)) IN
              IF IsErr(u) THEN u
              ELSE IF Head(s) = "-" THEN [u EXCEPT !.n = 0 - @] ELSE u
         ELSE ParseUnsigned(s)

\* float(x)
ToFloat(x) ==
    CASE x.t = "int" -> PyFloat(x.n, 1)
      [] x.t = "float" -> x
      [] x.t = "str" -> ParseFloat(x.s)
      [] OTHER -> TypeError

\* round(x) of a finite float n/d: nearest integer, a tie going to the even one
RoundHalfEven(n, d) ==
    LET q == n \div d
        r == n - q * d
    IN IF 2 * r < d THEN q
       ELSE IF 2 * r > d THEN q + 1
       ELSE IF q % 2 = 0 THEN q ELSE q + 1

Returned(v) == [fault |-> FALSE, v |-> v]
Raised == [fault |-> TRUE, v |-> 0]

round_score(score) ==
    IF score = PyNone THEN Returned(0)
    ELSE LET score_float == ToFloat(score) IN
         IF IsErr(score_float) THEN Returned(0)             \* except (ValueError, TypeError)
         ELSE IF score_float.d = 0
              THEN IF score_float.n = 0 THEN Returned(0)    \* round(nan): ValueError, caught
                   ELSE Raised                              \* round(inf): OverflowError
              ELSE Returned(RoundHalfEven(score_float.n, score_float.d))

\* (mutant) the upper limit of the test is dropped: 0 < score
IsFraction_NoUpperBound(f) == f.d # 0 /\ 0 < f.n

\* 0 < score < 1
IsFraction(f) == f.d # 0 /\ 0 < f.n /\ f.n < f.d

\* score * 100
Times100(f) == [f EXCEPT !.n = @ * 100]

parse_score(value) ==
    IF value = PyNone THEN Returned(0)
    ELSE IF value.t \in {"int", "float"}
    THEN LET score == ToFloat(value) IN
         IF IsFraction(score) THEN round_score(Times100(score)) ELSE round_score(score)
    ELSE IF value.t = "str"
    THEN LET score_str == Strip(value.s) IN
         IF \E i \in DOMAIN score_str : score_str[i] = "%"
         THEN LET score == ParseFloat(RemoveChar(score_str, "%")) IN
              IF IsErr(score) THEN Returned(0) ELSE round_score(score)
         ELSE LET score == ParseFloat(score_str) IN
              IF IsErr(score) THEN Returned(0)
              ELSE IF IsFraction(score) THEN round_score(Times100(score))
              ELSE round_score(score)
    ELSE Returned(0)

-----------------------------------------------------------------------------
(* Course-name resolver: string_similarity, has_common_words,               *)
(* find_best_match.  A name is a sequence of one-character strings; a       *)
(* similarity is the exact fraction n/d.                                    *)

LowerTable ==
    ("A" :> "a") @@ ("B" :> "b") @@ ("C" :> "c") @@ ("D" :> "d") @@ ("E" :> "e") @@
    ("F" :> "f") @@ ("G" :> "g") @@ ("H" :> "h") @@ ("I" :> "i") @@ ("J" :> "j") @@
    ("K" :> "k") @@ ("L" :> "l") @@ ("M" :> "m") @@ ("N" :> "n") @@ ("O" :> "o") @@
    ("P" :> "p") @@ ("Q" :> "q") @@ ("R" :> "r") @@ ("S" :> "s") @@ ("T" :> "t") @@
    ("U" :> "u") @@ ("V" :> "v") @@ ("W" :> "w") @@ ("X" :> "x") @@ ("Y" :> "y") @@
    ("Z" :> "z")

\* str.lower()
Lower(s) == [i \in DOMAIN s |-> IF s[i] \in DOMAIN LowerTable THEN LowerTable[s[i]] ELSE s[i]]

Frac(n, d) == [n |-> n, d |-> d]
FracLess(x, y) == x.n * y.d < y.n * x.d
FracLeq(x, y) == x.n * y.d <= y.n * x.d
FracEq(x, y) == x.n * y.d = y.n * x.d
FracAdd(x, y) == Frac(x.n * y.d + y.n * x.d, x.d * y.d)

\* length of the common run of a from i and b from j, inside a[..ahi-1], b[..bhi-1]
RECURSIVE RunLength(_, _, _, _, _, _)
RunLength(a, b, i, j, ahi, bhi) ==
    IF i < ahi /\ j < bhi /\ a[i] = b[j] THEN 1 + RunLength(a, b, i + 1, j + 1, ahi, bhi)
    ELSE 0

\* SequenceMatcher.find_longest_match(alo, ahi, blo, bhi) without junk: the
\* longest common block, the one starting earliest in a and, among those,
\* earliest in b; <<alo, blo, 0>> when there is none
find_longest_match(a, b, alo, ahi, blo, bhi) ==
    LET starts == (alo..(ahi - 1)) \X (blo..(bhi - 1))
        size(p) == RunLength(a, b, p[1], p[2], ahi, bhi)
        sizes == { size(p) : p \in starts }
    IN IF starts = {} \/ sizes = {0} THEN <<alo, blo, 0>>
       ELSE LET k == CHOOSE m \in sizes : \A n \in sizes : n <= m
                longest == { p \in starts : size(p) = k }
                i == CHOOSE x \in { p[1] : p \in longest } :
                        \A y \in { p[1] : p \in longest } : x <= y
                j == CHOOSE x \in { p[2] : p \in { q \in longest : q[1] = i } } :
                        \A y \in { p[2] : p \in { q \in longest : q[1] = i } } : x <= y
            IN <<i, j, k>>

\* SequenceMatcher.get_matching_blocks: total size of the blocks found by
\* taking the longest match and recursing on both sides of it
RECURSIVE MatchingSize(_, _, _, _, _, _)
MatchingSize(a, b, alo, ahi, blo, bhi) ==
    IF alo >= ahi \/ blo >= bhi THEN 0
    ELSE LET m == find_longest_match(a, b, alo, ahi, blo, bhi) IN
         IF m[3] = 0 THEN 0
         ELSE m[3] + MatchingSize(a, b, alo, m[1], blo, m[2])
                   + MatchingSize(a, b, m[1] + m[3], ahi, m[2] + m[3], bhi)

\* SequenceMatcher(None, a, b).ratio(): 2 * matches / (len(a) + len(b)), 1.0
\* when both are empty
Ratio(a, b) ==
    IF Len(a) + Len(b) = 0 THEN Frac(1, 1)
    ELSE Frac(2 * MatchingSize(a, b, 1, Len(a) + 1, 1, Len(b) + 1), Len(a) + Len(b))

string_similarity(a, b) == Ratio(Strip(Lower(a)), Strip(Lower(b)))

\* re.findall(r'\b[a-z0-9]+\b', s), s lower-cased: the maximal runs of
\* [a-z0-9] that have a word boundary at both ends, that is, no "_" next to
\* them ("_" is a word character outside the class)
TokenChars ==
    {"a", "b", "c", "d", "e", "f", "g", "h", "i", "j", "k", "l", "m", "n", "o", "p",
     "q", "r", "s", "t", "u", "v", "w", "x", "y", "z"} \cup Digits
WordChars == TokenChars \cup {"_"}

FindAllWords(s) ==
    LET runs == { p \in (DOMAIN s) \X (DOMAIN s) :
                    /\ p[1] <= p[2]
                    /\ \A k \in p[1]..p[2] : s[k] \in TokenChars
                    /\ p[1] = 1 \/ s[p[1] - 1] \notin WordChars
                    /\ p[2] = Len(s) \/ s[p[2] + 1] \notin WordChars }
    IN { SubSeq(s, p[1], p[2]) : p \in runs }

\* (mutant) words of any length count as common words
has_common_words_AnyLength(a, b, min_word_length) ==
    LET common_words == FindAllWords(Lower(a)) \cap FindAllWords(Lower(b))
    IN [has_common |-> common_words # {}, common_words |-> common_words]

\* has_common_words(a, b): the words of length >= min_word_length in both
has_common_words(a, b, min_word_length) ==
    LET a_words == { w \in FindAllWords(Lower(a)) : Len(w) >= min_word_length }
        b_words == { w \in FindAllWords(Lower(b)) : Len(w) >= min_word_length }
        common_words == a_words \cap b_words
    IN [has_common |-> common_words # {}, common_words |-> common_words]

RECURSIVE SumLen(_)
SumLen(S) ==
    IF S = {} THEN 0 ELSE LET w == CHOOSE x \in S : TRUE IN Len(w) + SumLen(S \ {w})

\* (mutant) the shared-word weight is not added
adjusted_similarity_NoBoost(course_name, course) == string_similarity(course_name, course)

\* (mutant) the shared-word weight is divided by the candidate's length
adjusted_similarity_ByCandidateLength(course_name, course) ==
    LET hc == has_common_words(course_name, course, 3)
        similarity == string_similarity(course_name, course)
    IN IF hc.has_common
       THEN IF Len(course) = 0 THEN ZeroDivisionError
            ELSE FracAdd(similarity, Frac(SumLen(hc.common_words), 2 * Len(course)))
       ELSE similarity

\* adjusted_similarity of one candidate; the division by len(course_name)
\* raises ZeroDivisionError when the length is 0
adjusted_similarity(course_name, course) ==
    LET hc == has_common_words(course_name, course, 3)
        similarity == string_similarity(course_name, course)
    IN IF hc.has_common
       THEN IF Len(course_name) = 0 THEN ZeroDivisionError
            ELSE FracAdd(similarity, Frac(SumLen(hc.common_words), 2 * Len(course_name)))
       ELSE similarity

NoMatch == [match |-> None, similarity |-> Frac(0, 1), method |-> "none", common_words |-> {}]

\* (mutant) a candidate that equals the best score replaces the best
RECURSIVE BestFrom_LastWins(_, _, _, _)
BestFrom_LastWins(course_name, course_list, k, best) ==
    IF k > Len(course_list) THEN best
    ELSE LET course == course_list[k]
             hc == has_common_words(course_name, course, 3)
             adjusted == adjusted_similarity(course_name, course)
         IN IF IsErr(adjusted) THEN adjusted
            ELSE BestFrom_LastWins(course_name, course_list, k + 1,
                     IF FracLeq(best.similarity, adjusted)
                     THEN [match |-> course, similarity |-> adjusted,
                           method |-> IF hc.has_common THEN "common_words" ELSE "similarity",
                           common_words |-> hc.common_words]
                     ELSE best)

\* the loop of find_best_match over course_list: best is (best_match,
\* best_similarity, match_method, best_common_words); an exception raised for
\* a candidate ends the loop
RECURSIVE BestFrom(_, _, _, _)
BestFrom(course_name, course_list, k, best) ==
    IF k > Len(course_list) THEN best
    ELSE LET course == course_list[k]
             hc == has_common_words(course_name, course, 3)
             adjusted == adjusted_similarity(course_name, course)
         IN IF IsErr(adjusted) THEN adjusted
            ELSE BestFrom(course_name, course_list, k + 1,
                     IF FracLess(best.similarity, adjusted)
                     THEN [match |-> course, similarity |-> adjusted,
                           method |-> IF hc.has_common THEN "common_words" ELSE "similarity",
                           common_words |-> hc.common_words]
                     ELSE best)

\* (mutant) the accepted match need not have shared words
Accept_NoWordGate(best, threshold) == FracLeq(threshold, best.similarity)

\* (mutant) the threshold comparison is strict
Accept_Strict(best, threshold) ==
    best.method = "common_words" /\ FracLess(threshold, best.similarity)

\* (mutant) a score above 1.0 is not taken for a similarity
Accept_Capped(best, threshold) ==
    /\ best.method = "common_words"
    /\ FracLeq(threshold, best.similarity)
    /\ FracLeq(best.similarity, Frac(1, 1))

\* the final test of find_best_match
Accept(best, threshold) ==
    best.method = "common_words" /\ FracLeq(threshold, best.similarity)

find_best_match(course_name, course_list, threshold) ==
    LET best == BestFrom(course_name, course_list, 1, NoMatch) IN
    IF IsErr(best) THEN best
    ELSE IF Accept(best, threshold) THEN best ELSE NoMatch

-----------------------------------------------------------------------------
(* GPA aggregator: calculate_gpa *)

\* course.get("scale", "AP")
GetScale(course) == IF course.scale = Absent THEN "AP" ELSE course.scale

\* the exclusion loop over NON_GPA_SUBJECTS: the value of subject_found.
\* For each non-GPA subject in order: the subject field equals it, or the
\* course name is one of the names listed under it.
RECURSIVE SubjectFoundFrom(_, _)
SubjectFoundFrom(course, k) ==
    IF k > Len(NON_GPA_SUBJECTS) THEN FALSE
    ELSE LET non_gpa_subject == NON_GPA_SUBJECTS[k]
             names == Requirement(non_gpa_subject).courses
         IN IF course.subject = non_gpa_subject THEN TRUE
            ELSE IF \E n \in DOMAIN names : course.course = names[n] THEN TRUE
            ELSE SubjectFoundFrom(course, k + 1)

\* (mutant) only the course-name test of the exclusion loop, the subject test dropped
SubjectFound_NameOnly(course) ==
    \E k \in DOMAIN NON_GPA_SUBJECTS :
        course.course \in Range(Requirement(NON_GPA_SUBJECTS[k]).courses)

\* (mutant) only the subject test of the exclusion loop, the course-name test dropped
SubjectFound_SubjectOnly(course) ==
    \E k \in DOMAIN NON_GPA_SUBJECTS : course.subject = NON_GPA_SUBJECTS[k]

SubjectFound(course) == SubjectFoundFrom(course, 1)

\* the band loop: first band in dictionary order with low <= score <= high;
\* 0 when the loop ends without a break
RECURSIVE FirstBandFrom(_, _, _)
FirstBandFrom(bands, score, k) ==
    IF k > Len(bands) THEN 0
    ELSE IF bands[k].low <= score /\ score <= bands[k].high THEN k
    ELSE FirstBandFrom(bands, score, k + 1)

\* (mutant) each counted course adds 1 to total_credits, whatever its credits
ProcessCourse_UnitCredit(acc, course) ==
    IF acc.fault THEN acc
    ELSE LET scale == GetScale(course) IN
         IF scale = "Not Included" THEN acc
         ELSE IF SubjectFound(course) THEN acc
         ELSE IF scale \notin DOMAIN GRADE_SCALE
              THEN [acc EXCEPT !.fault = TRUE]
         ELSE LET k == FirstBandFrom(GRADE_SCALE[scale], course.score, 1) IN
              IF k = 0 THEN acc
              ELSE [acc EXCEPT
                      !.total_points = @ + GRADE_SCALE[scale][k].points * course.credits,
                      !.total_credits = @ + 1]

\* One iteration of the loop over semester_data.items(): acc is
\* (fault, total_points, total_credits).
ProcessCourse(acc, course) ==
    IF acc.fault THEN acc
    ELSE LET scale == GetScale(course) IN
         IF scale = "Not Included" THEN acc
         ELSE IF SubjectFound(course) THEN acc
         ELSE IF scale \notin DOMAIN GRADE_SCALE
              THEN [acc EXCEPT !.fault = TRUE]       \* KeyError: GRADE_SCALE[scale]
         ELSE LET k == FirstBandFrom(GRADE_SCALE[scale], course.score, 1) IN
              IF k = 0 THEN acc
              ELSE [acc EXCEPT
                      !.total_points = @ + GRADE_SCALE[scale][k].points * course.credits,
                      !.total_credits = @ + course.credits]

RECURSIVE ProcessSemester(_, _)
ProcessSemester(acc, semester_data) ==
    IF semester_data = <<>> THEN acc
    ELSE ProcessSemester(ProcessCourse(acc, Head(semester_data)), Tail(semester_data))

\* for semester_data in year_data.values()
RECURSIVE ProcessYear(_, _, _)
ProcessYear(acc, year_data, k) ==
    IF k > Len(Semesters) THEN acc
    ELSE ProcessYear(ProcessSemester(acc, year_data[Semesters[k]]), year_data, k + 1)

\* for year_data in grades.values()
RECURSIVE ProcessAll(_, _, _)
ProcessAll(acc, g, k) ==
    IF k > Len(Years) THEN acc
    ELSE ProcessAll(ProcessYear(acc, g[Years[k]], 1), g, k + 1)

Acc0 == [fault |-> FALSE, total_points |-> 0, total_credits |-> 0]
Zero == [fault |-> FALSE, num |-> 0, den |-> 1]

\* (mutant) the division is made without the test of total_credits
Quotient_NoZeroGuard(acc) ==
    IF acc.fault \/ acc.total_credits = 0 THEN [fault |-> TRUE, num |-> 0, den |-> 1]
    ELSE [fault |-> FALSE, num |-> acc.total_points, den |-> 10 * acc.total_credits]

\* return total_points / total_credits if total_credits else 0
Quotient(acc) ==
    IF acc.fault THEN [fault |-> TRUE, num |-> 0, den |-> 1]
    ELSE IF acc.total_credits # 0
         THEN [fault |-> FALSE, num |-> acc.total_points, den |-> 10 * acc.total_credits]
         ELSE Zero

\* (mutant) the GPA of a year is the mean of the GPAs of its two terms
calculate_gpa_YearAveraged(g, specific_grade, specific_semester) ==
    IF specific_grade # None /\ specific_semester # None
    THEN IF specific_grade \in DOMAIN g /\ specific_semester \in DOMAIN g[specific_grade]
         THEN Quotient(ProcessSemester(Acc0, g[specific_grade][specific_semester]))
         ELSE Zero
    ELSE IF specific_grade # None
    THEN IF specific_grade \in DOMAIN g
         THEN LET fall == Quotient(ProcessSemester(Acc0, g[specific_grade]["Fall"]))
                  spring == Quotient(ProcessSemester(Acc0, g[specific_grade]["Spring"]))
              IN [fault |-> fall.fault \/ spring.fault,
                  num |-> fall.num * spring.den + spring.num * fall.den,
                  den |-> 2 * fall.den * spring.den]
         ELSE Zero
    ELSE Quotient(ProcessAll(Acc0, g, 1))

calculate_gpa(g, specific_grade, specific_semester) ==
    IF specific_grade # None /\ specific_semester # None
    THEN IF specific_grade \in DOMAIN g /\ specific_semester \in DOMAIN g[specific_grade]
         THEN Quotient(ProcessSemester(Acc0, g[specific_grade][specific_semester]))
         ELSE Zero
    ELSE IF specific_grade # None
    THEN IF specific_grade \in DOMAIN g
         THEN Quotient(ProcessYear(Acc0, g[specific_grade], 1))
         ELSE Zero
    ELSE Quotient(ProcessAll(Acc0, g, 1))


-----------------------------------------------------------------------------
(* Requirement tracker: Student, get_semester_grades, update_student_data,  *)
(* check_graduation.  A dictionary is the sequence of its items in          *)
(* insertion order.                                                         *)

EmptyGrades == [y \in Range(Years) |-> [s \in Range(Semesters) |-> <<>>]]

\* Student.__init__: requirement progress seeded at zero (of the Student
\* object only the requirements are modelled; its grades copy and identity
\* fields are read by no operation modelled here)
Student__init__ ==
    [requirements |->
        [subject \in Subjects |->
            IF subject = "Chinese_Social_Studies"
            THEN [required_courses |-> 3, taken_courses |-> {}]
            ELSE [required |-> Requirement(subject).semesters, taken |-> 0]]]

\* d[key] = value on a dictionary kept as a sequence of items
DictSet(d, key, value) ==
    IF \E i \in DOMAIN d : d[i].key = key
    THEN [i \in DOMAIN d |-> IF d[i].key = key THEN [key |-> key, value |-> value] ELSE d[i]]
    ELSE Append(d, [key |-> key, value |-> value])

\* course_counter[subject] once the first n entries have been read
CourseCounter(entries, n, subject) ==
    Cardinality({ i \in 1..n : entries[i].subject = subject })

\* (mutant) the key of a course is its subject, without the counter
RECURSIVE SemesterGradesFrom_SubjectKey(_, _, _)
SemesterGradesFrom_SubjectKey(entries, n, d) ==
    IF n > Len(entries) THEN d
    ELSE LET e == entries[n]
             data == [subject |-> e.subject, course |-> e.course, score |-> e.score,
                      scale |-> e.scale, credits |-> 1]
         IN SemesterGradesFrom_SubjectKey(entries, n + 1, DictSet(d, e.subject, data))

\* get_semester_grades: the loop over sem_frame.get_courses()
RECURSIVE SemesterGradesFrom(_, _, _)
SemesterGradesFrom(entries, n, d) ==
    IF n > Len(entries) THEN d
    ELSE LET e == entries[n]
             key == e.subject \o "_" \o ToString(CourseCounter(entries, n, e.subject))
             data == [subject |-> e.subject, course |-> e.course, score |-> e.score,
                      scale |-> e.scale, credits |-> 1]
         IN SemesterGradesFrom(entries, n + 1, DictSet(d, key, data))

get_semester_grades(entries, grade, semester) ==
    SemesterGradesFrom(entries[grade][semester], 1, <<>>)

\* index of the first category whose course list has the name, 0 if none
RECURSIVE FirstCategoryFrom(_, _)
FirstCategoryFrom(course_name, k) ==
    IF k > Len(GRADUATION_REQUIREMENTS) THEN 0
    ELSE IF course_name \in Range(GRADUATION_REQUIREMENTS[k].courses) THEN k
    ELSE FirstCategoryFrom(course_name, k + 1)

\* (mutant) a course whose name is in no list is counted as an elective
CountCourse_UnlistedAsElective(requirements, course_name) ==
    LET k == FirstCategoryFrom(course_name, 1) IN
    IF k = 0 THEN [requirements EXCEPT !["Electives"].taken = @ + 1]
    ELSE LET req_subject == GRADUATION_REQUIREMENTS[k].subject IN
         IF req_subject = "Chinese_Social_Studies"
         THEN [requirements EXCEPT ![req_subject].taken_courses = @ \cup {course_name}]
         ELSE [requirements EXCEPT ![req_subject].taken = @ + 1]

\* the loop over GRADUATION_REQUIREMENTS.items() for one course record
CountCourse(requirements, course_name) ==
    LET k == FirstCategoryFrom(course_name, 1) IN
    IF k = 0 THEN requirements
    ELSE LET req_subject == GRADUATION_REQUIREMENTS[k].subject IN
         IF req_subject = "Chinese_Social_Studies"
         THEN [requirements EXCEPT ![req_subject].taken_courses = @ \cup {course_name}]
         ELSE [requirements EXCEPT ![req_subject].taken = @ + 1]

\* (mutant) a course whose scale is "Not Included" is not counted
RECURSIVE CountSemester_SkipsNotIncluded(_, _)
CountSemester_SkipsNotIncluded(requirements, items) ==
    IF items = <<>> THEN requirements
    ELSE CountSemester_SkipsNotIncluded(
             IF Head(items).value.scale = "Not Included" THEN requirements
             ELSE CountCourse(requirements, Head(items).value.course),
             Tail(items))

\* for _, data in grades.items()
RECURSIVE CountSemester(_, _)
CountSemester(requirements, items) ==
    IF items = <<>> THEN requirements
    ELSE CountSemester(CountCourse(requirements, Head(items).value.course), Tail(items))

\* (mutant) only the Fall terms are scanned
RECURSIVE UpdateFrom_FallOnly(_, _, _)
UpdateFrom_FallOnly(st, entries, k) ==
    IF k > Len(Years) THEN st
    ELSE LET g == get_semester_grades(entries, Years[k], "Fall")
         IN UpdateFrom_FallOnly([requirements |-> CountSemester(st.requirements, g)],
                                entries, k + 1)

\* the loops over ["10", "11", "12"] and ["Fall", "Spring"]; k numbers the six terms
RECURSIVE UpdateFrom(_, _, _)
UpdateFrom(st, entries, k) ==
    IF k > Len(Years) * Len(Semesters) THEN st
    ELSE LET grade == Years[((k - 1) \div Len(Semesters)) + 1]
             semester == Semesters[((k - 1) % Len(Semesters)) + 1]
             g == get_semester_grades(entries, grade, semester)
         IN UpdateFrom([requirements |-> CountSemester(st.requirements, g)],
                       entries, k + 1)

\* (mutant) the requirement counts of the previous student object are kept
\* instead of starting from a new Student
update_student_data_NoReset(entries) == UpdateFrom(student, entries, 1)

\* update_student_data: a new Student, then one scan of the six terms
update_student_data(entries) == UpdateFrom(Student__init__, entries, 1)

\* (mutant) the comparison of taken with required is <= instead of <
Deficient_OffByOne(subject, req_data) ==
    IF subject = "Chinese_Social_Studies"
    THEN ~(Range(Requirement(subject).courses) \subseteq req_data.taken_courses)
    ELSE req_data.taken <= req_data.required

\* the test check_graduation applies to one category
Deficient(subject, req_data) ==
    IF subject = "Chinese_Social_Studies"
    THEN ~(Range(Requirement(subject).courses) \subseteq req_data.taken_courses)
    ELSE req_data.taken < req_data.required

\* (mutant) the message lists every required course, not the missing ones
Reason_ListsAll(subject, req_data) ==
    IF subject = "Chinese_Social_Studies"
    THEN [subject |-> subject, missing |-> Range(Requirement(subject).courses)]
    ELSE [subject |-> subject, required |-> req_data.required, taken |-> req_data.taken]

\* the entry appended to failed_reasons (the fields the message is built from)
Reason(subject, req_data) ==
    IF subject = "Chinese_Social_Studies"
    THEN [subject |-> subject,
          missing |-> Range(Requirement(subject).courses) \ req_data.taken_courses]
    ELSE [subject |-> subject, required |-> req_data.required, taken |-> req_data.taken]

\* check_graduation: the loop over student.requirements.items()
RECURSIVE CheckFrom(_, _, _)
CheckFrom(st, k, reasons) ==
    IF k > Len(GRADUATION_REQUIREMENTS) THEN reasons
    ELSE LET subject == GRADUATION_REQUIREMENTS[k].subject
             req_data == st.requirements[subject]
         IN CheckFrom(st, k + 1,
                      IF Deficient(subject, req_data)
                      THEN Append(reasons, Reason(subject, req_data))
                      ELSE reasons)

check_graduation(st) == CheckFrom(st, 1, <<>>)

-----------------------------------------------------------------------------
(* Merge of TGRT files: merge_tgrt_files and its on_merge callback.  A file  *)
(* path is <<>> when nothing is selected and <<data>> when the file holding *)
(* data is selected; merged_data is <<>> until a file is written.           *)

\* semesters, the labels of the six file selectors
semesters ==
    << <<"G", "1", "0", " ", "F", "a", "l", "l">>,
       <<"G", "1", "0", " ", "S", "p", "r", "i", "n", "g">>,
       <<"G", "1", "1", " ", "F", "a", "l", "l">>,
       <<"G", "1", "1", " ", "S", "p", "r", "i", "n", "g">>,
       <<"G", "1", "2", " ", "F", "a", "l", "l">>,
       <<"G", "1", "2", " ", "S", "p", "r", "i", "n", "g">> >>

\* str.split(): the runs of characters that are not whitespace
RECURSIVE Split(_)
Split(chars) ==
    LET s == LStrip(chars) IN
    IF s = <<>> THEN <<>>
    ELSE LET stops == { i \in DOMAIN s : s[i] \in Whitespace }
             n == IF stops = {} THEN Len(s)
                  ELSE (CHOOSE i \in stops : \A j \in stops : i <= j) - 1
         IN <<SubSeq(s, 1, n)>> \o Split(SubSeq(s, n + 1, Len(s)))

\* the characters as one string (a dictionary key)
RECURSIVE Join(_)
Join(chars) == IF chars = <<>> THEN "" ELSE Head(chars) \o Join(Tail(chars))

\* grade = semester.split()[0][1:]
GradeOf(semester) == Join(Tail(Split(semester)[1]))

\* (mutant) the term is read from the first label whatever the selector
TermOf_AlwaysFirst(semester) == Join(Split(semesters[1])[2])

\* term = semester.split()[1]
TermOf(semester) == Join(Split(semester)[2])

\* merged_data["courses"] before the files are merged
EmptyCourses == [y \in Range(Years) |-> [s \in Range(Semesters) |-> <<>>]]

\* the loop over loaded_files.items(): k numbers the selectors, courses is
\* merged_data["courses"]
RECURSIVE MergeFrom(_, _, _)
MergeFrom(semester_file_paths, k, courses) ==
    IF k > Len(semesters) THEN courses
    ELSE IF semester_file_paths[k] = <<>>
         THEN MergeFrom(semester_file_paths, k + 1, courses)
         ELSE LET data == semester_file_paths[k][1]
                  grade == GradeOf(semesters[k])
                  term == TermOf(semesters[k])
              IN MergeFrom(semester_file_paths, k + 1,
                     IF grade \in DOMAIN data.courses /\ term \in DOMAIN data.courses[grade]
                     THEN [courses EXCEPT ![grade][term] = data.courses[grade][term]]
                     ELSE courses)

\* the selected files, in the order of the selectors
SelectedFiles(semester_file_paths) ==
    LET selected == { k \in DOMAIN semester_file_paths : semester_file_paths[k] # <<>> }
    IN [k \in selected |-> semester_file_paths[k][1]]

\* student_info: data["student"] of the first selected file
StudentInfo(semester_file_paths) ==
    LET selected == SelectedFiles(semester_file_paths)
        first == CHOOSE k \in DOMAIN selected : \A j \in DOMAIN selected : k <= j
    IN selected[first].student

\* every file has the name and the student_id of student_info
SameStudent(semester_file_paths) ==
    LET selected == SelectedFiles(semester_file_paths)
        student_info == StudentInfo(semester_file_paths)
    IN \A k \in DOMAIN selected :
          /\ selected[k].student.name = student_info.name
          /\ selected[k].student.student_id = student_info.student_id

\* the dialog as merge_tgrt_files opens it
DialogOpened ==
    [semester_file_paths |-> [k \in DOMAIN semesters |-> <<>>], output_file |-> ""]

-----------------------------------------------------------------------------
(* Specification SpecGPA: calculate_gpa called on grades records that a    *)
(* caller builds up course by course.                                       *)

MaxGpaCourses == 2

\* Course records a caller can pass: every scale (known, excluded, unknown,
\* absent), scores inside and outside the bands, GPA and non-GPA subjects,
\* course names inside and outside the non-GPA course lists.
Rec(subject, course, score, scale, credits) ==
    [subject |-> subject, course |-> course, score |-> score,
     scale |-> scale, credits |-> credits]

CoursePool ==
    { Rec("Science", "Biology", 95, "AP", 1),
      Rec("Chinese", "Chinese", 85, "CNCC", 2),
      Rec("Science", "Physics", 59, "AP", 2),
      Rec("Technology", "Robotics", 100, "IB", 1),
      Rec("Science", "PE", 100, "AP", 1),
      Rec("Electives", "AP Research", 100, "Not Included", 1),
      Rec("Science", "Biology", 150, "AP", 1),
      Rec("Science", "Biology", 85, "IB", 1),
      Rec("Science", "Biology", 85, Absent, 1) }

\* the terms the caller fills; the other terms stay empty
GpaTerms == { <<"10", "Fall">>, <<"10", "Spring">>, <<"11", "Fall">> }

\* the scopes a caller asks for: overall, a year, a year and a term; also a
\* year or a term the grades record does not have, and a term without a year
GpaScopes ==
    { <<None, None>>, <<None, "Fall">>,
      <<"10", None>>, <<"11", None>>, <<"13", None>>,
      <<"10", "Fall">>, <<"10", "Spring">>, <<"11", "Fall">>, <<"12", "Spring">>,
      <<"10", "Summer">> }

CountCourses(g) ==
    SumSeq([k \in 1..(Len(Years) * Len(Semesters)) |->
              Len(g[Years[((k - 1) \div Len(Semesters)) + 1]]
                   [Semesters[((k - 1) % Len(Semesters)) + 1]])])

GuiIdle ==
    /\ course_entries = EmptyGrades
    /\ student = Student__init__
    /\ failed_reasons = <<>>

MatchIdle ==
    /\ m_args = [course_name |-> <<>>, course_list |-> <<>>, threshold |-> [n |-> 2, d |-> 5]]
    /\ m_result = NotComputed
ScoreIdle == score_value = PyNone /\ parsed = NotComputed
MergeIdle == merge_dialog = DialogOpened /\ merged_data = <<>>
GpaIdle == grades = EmptyGrades /\ gpa_args = <<None, None>> /\ gpa = Zero

GpaInit ==
    /\ grades = EmptyGrades
    /\ gpa_args = <<None, None>>
    /\ gpa = calculate_gpa(EmptyGrades, None, None)
    /\ op = [kind |-> "gpa"]
    /\ GuiIdle /\ MatchIdle /\ ScoreIdle /\ MergeIdle

\* the caller calls calculate_gpa(grades, specific_grade, specific_semester)
GpaCall(specific_grade, specific_semester) ==
    /\ gpa_args' = <<specific_grade, specific_semester>>
    /\ gpa' = calculate_gpa(grades, specific_grade, specific_semester)
    /\ UNCHANGED grades

\* the caller adds a course record to a term and calls again with the same scope
GpaAddCourse(y, s, rec) ==
    /\ CountCourses(grades) < MaxGpaCourses
    /\ grades' = [grades EXCEPT ![y][s] = Append(@, rec)]
    /\ gpa' = calculate_gpa(grades', gpa_args[1], gpa_args[2])
    /\ UNCHANGED gpa_args

\* the caller removes a course record from a term and calls again with the same scope
GpaRemoveCourse(y, s, i) ==
    /\ i \in DOMAIN grades[y][s]
    /\ grades' = [grades EXCEPT ![y][s] = RemoveAt(@, i)]
    /\ gpa' = calculate_gpa(grades', gpa_args[1], gpa_args[2])
    /\ UNCHANGED gpa_args

GpaNext ==
    /\ \/ \E sc \in GpaScopes : GpaCall(sc[1], sc[2])
       \/ \E t \in GpaTerms, rec \in CoursePool : GpaAddCourse(t[1], t[2], rec)
       \/ \E t \in GpaTerms, i \in 1..(MaxGpaCourses + 1) : GpaRemoveCourse(t[1], t[2], i)
    /\ UNCHANGED <<gui_vars, match_vars, score_vars, op, merge_vars>>

SpecGPA == GpaInit /\ [][GpaNext]_vars

-----------------------------------------------------------------------------
(* Reference definitions for the GPA claims, written from the claims       *)

\* positions <<year, term, index>> of the records the scope selects
InScope(g, sc) ==
    { p \in Range(Years) \X Range(Semesters) \X (1..(MaxGpaCourses + 1)) :
        /\ p[3] \in DOMAIN g[p[1]][p[2]]
        /\ IF sc[1] # None /\ sc[2] # None THEN p[1] = sc[1] /\ p[2] = sc[2]
           ELSE IF sc[1] # None THEN p[1] = sc[1]
           ELSE TRUE }

NonGpaSubjectSet == Range(NON_GPA_SUBJECTS)
NonGpaCourseNames == UNION { Range(Requirement(x).courses) : x \in NonGpaSubjectSet }

\* a record survives the exclusion rules
Survives(course) ==
    /\ course.scale # "Not Included"
    /\ course.subject \notin NonGpaSubjectSet
    /\ course.course \notin NonGpaCourseNames

KnownScale(course) == GetScale(course) \in {"AP", "CNCC"}

BandsContaining(scale, score) ==
    { b \in Range(GRADE_SCALE[scale]) : b.low <= score /\ score <= b.high }

PointsOf(course) ==
    (CHOOSE b \in BandsContaining(GetScale(course), course.score) : TRUE).points

RECURSIVE SumPoints(_, _)
SumPoints(S, g) ==
    IF S = {} THEN 0
    ELSE LET p == CHOOSE q \in S : TRUE
             c == g[p[1]][p[2]][p[3]]
         IN PointsOf(c) * c.credits + SumPoints(S \ {p}, g)

RECURSIVE SumCredits(_, _)
SumCredits(S, g) ==
    IF S = {} THEN 0
    ELSE LET p == CHOOSE q \in S : TRUE
         IN g[p[1]][p[2]][p[3]].credits + SumCredits(S \ {p}, g)

Survivors(g, sc) == { p \in InScope(g, sc) : Survives(g[p[1]][p[2]][p[3]]) }

\* C1 (as claimed): for any grades record and any scope, calculate_gpa returns
\* (sum over the surviving in-scope records of points x credits) / (sum over
\* the same records of credits), points being the value of the band of the
\* record's scale that contains its score, and 0 when no record survives.
C1_WeightedMean ==
    LET S == Survivors(grades, gpa_args) IN
    IF S = {} THEN gpa = Zero
    ELSE /\ ~gpa.fault
         /\ \A p \in S :
               LET c == grades[p[1]][p[2]][p[3]] IN
               KnownScale(c) /\ BandsContaining(GetScale(c), c.score) # {}
         /\ gpa.num = SumPoints(S, grades)
         /\ gpa.den = 10 * SumCredits(S, grades)

\* C2: a record whose scale is "Not Included" or whose subject is Technology,
\* Physical_Education or Fine_And_Performing_Arts never contributes: adding
\* or removing such a record leaves the value calculate_gpa returns for the
\* scope unchanged, whatever the record's score.
ExcludedByScaleOrSubject(course) ==
    \/ course.scale = "Not Included"
    \/ course.subject \in {"Technology", "Physical_Education", "Fine_And_Performing_Arts"}

\* h is g with the one record rec added to some term
OneMore(g, h, rec) ==
    \E t \in GpaTerms : \E i \in DOMAIN h[t[1]][t[2]] :
        /\ h[t[1]][t[2]][i] = rec
        /\ g = [h EXCEPT ![t[1]][t[2]] = RemoveAt(@, i)]

C2_ExcludedNeverCounts ==
    [][ \A rec \in CoursePool :
          ( /\ ExcludedByScaleOrSubject(rec)
            /\ OneMore(grades, grades', rec) \/ OneMore(grades', grades, rec)
            /\ gpa_args' = gpa_args )
          => gpa' = gpa ]_vars

\* an excluded record with the top score stands next to a counted record in
\* the scope, and the GPA returned is that of the counted record alone
C2_Witness ==
    /\ gpa_args = <<"10", "Fall">>
    /\ Len(grades["10"]["Fall"]) = 2
    /\ grades["10"]["Fall"][1].score = 95 /\ Survives(grades["10"]["Fall"][1])
    /\ ExcludedByScaleOrSubject(grades["10"]["Fall"][2])
    /\ grades["10"]["Fall"][2].score = 100
    /\ ~gpa.fault /\ gpa.num = 40 /\ gpa.den = 10

\* C9 (as claimed): a course whose scale is unknown (not AP, CNCC or Not
\* Included) is treated as an AP-scale course: calculate_gpa raises no error
\* and returns what it returns when the scale is AP.
UnknownScale(course) == course.scale \notin {"AP", "CNCC", "Not Included"}

AsAP(g) ==
    [y \in DOMAIN g |-> [s \in DOMAIN g[y] |->
        [i \in DOMAIN g[y][s] |->
            IF UnknownScale(g[y][s][i]) THEN [g[y][s][i] EXCEPT !.scale = "AP"]
            ELSE g[y][s][i]]]]

C9_UnknownScaleIsAP ==
    (\E p \in InScope(grades, gpa_args) : UnknownScale(grades[p[1]][p[2]][p[3]]))
      => /\ ~gpa.fault
         /\ gpa = calculate_gpa(AsAP(grades), gpa_args[1], gpa_args[2])

\* C10 (as claimed): when a surviving record's score lies in no band of its
\* scale, calculate_gpa surfaces a fault instead of returning a GPA computed
\* from the remaining records.
C10_NoBandIsFault ==
    (\E p \in Survivors(grades, gpa_args) :
        LET c == grades[p[1]][p[2]][p[3]] IN
        KnownScale(c) /\ BandsContaining(GetScale(c), c.score) = {})
      => gpa.fault

\* C11: a record whose course name is exactly a name listed under Technology,
\* Physical_Education or Fine_And_Performing_Arts is excluded even when its
\* subject field names a GPA-included category and its scale is AP or CNCC:
\* adding or removing such a record leaves the value calculate_gpa returns
\* for the scope unchanged.
MisTaggedNonGpa(course) ==
    /\ \E x \in {"Technology", "Physical_Education", "Fine_And_Performing_Arts"} :
          \E n \in DOMAIN Requirement(x).courses : course.course = Requirement(x).courses[n]
    /\ course.subject \notin {"Technology", "Physical_Education", "Fine_And_Performing_Arts"}
    /\ course.scale \in {"AP", "CNCC"}

\* the records of the pool that are excluded by their course name alone
MisTaggedRecords == { rec \in CoursePool : MisTaggedNonGpa(rec) }

C11_ExcludedByCourseName ==
    [][ \A rec \in MisTaggedRecords :
          ( /\ gpa_args' = gpa_args
            /\ OneMore(grades, grades', rec) \/ OneMore(grades', grades, rec) )
          => gpa' = gpa ]_vars

\* "PE" recorded under subject Science with score 100 on the AP scale stands
\* after a counted Biology record, and the GPA of the term is Biology's 4.0
C11_Witness ==
    /\ gpa_args = <<"10", "Fall">>
    /\ grades["10"]["Fall"] = << Rec("Science", "Biology", 95, "AP", 1),
                                 Rec("Science", "PE", 100, "AP", 1) >>
    /\ MisTaggedNonGpa(grades["10"]["Fall"][2])
    /\ ~gpa.fault /\ gpa.num = 40 /\ gpa.den = 10

\* the requested year, or the requested term of the requested year, is not
\* in the grades
ScopeMissing(g, sc) ==
    /\ sc[1] # None
    /\ \/ sc[1] \notin DOMAIN g
       \/ sc[2] # None /\ sc[2] \notin DOMAIN g[sc[1]]

\* C12: calculate_gpa returns exactly 0, without an arithmetic fault, whenever
\* the selected scope has no records, the requested year or term does not
\* exist in the grades, or every in-scope record is excluded.
C12_ZeroWithoutFault ==
    ( \/ InScope(grades, gpa_args) = {}
      \/ ScopeMissing(grades, gpa_args)
      \/ \A p \in InScope(grades, gpa_args) : ~Survives(grades[p[1]][p[2]][p[3]]) )
    => (~gpa.fault /\ gpa.num = 0 /\ gpa.den = 1)

\* the term asked for holds two records, both excluded (one by its subject,
\* one by its scale), and the value returned is 0
C12_Witness ==
    /\ gpa_args = <<"10", "Fall">>
    /\ Len(grades["10"]["Fall"]) = 2
    /\ \A i \in 1..2 : ~Survives(grades["10"]["Fall"][i])
    /\ grades["10"]["Fall"][1].subject = "Technology"
    /\ grades["10"]["Fall"][2].scale = "Not Included"
    /\ gpa = Zero

\* the grades record that keeps only the records of year y
OnlyYear(g, y) ==
    [yy \in DOMAIN g |-> [s \in DOMAIN g[yy] |-> IF yy = y THEN g[yy][s] ELSE <<>>]]

\* the grades record that keeps only the records of term (y, t)
OnlyTerm(g, y, t) ==
    [yy \in DOMAIN g |->
        [s \in DOMAIN g[yy] |-> IF yy = y /\ s = t THEN g[yy][s] ELSE <<>>]]

\* two results of calculate_gpa are the same outcome
SameGpa(a, b) ==
    /\ a.fault = b.fault
    /\ ~a.fault => a.num * b.den = b.num * a.den

\* C25: the three scope branches apply the same rule to each record:
\* calculate_gpa(grades, y, t) equals calculate_gpa of the record that holds
\* only term (y, t), and calculate_gpa(grades, y) equals calculate_gpa of the
\* record that holds only year y, so a year's GPA pools the points and
\* credits of both terms.
C25_ScopeIsRestriction ==
    LET y == gpa_args[1]
        t == gpa_args[2]
    IN /\ (y # None /\ t # None)
            => SameGpa(gpa, calculate_gpa(OnlyTerm(grades, y, t), None, None))
       /\ (y # None /\ t = None)
            => SameGpa(gpa, calculate_gpa(OnlyYear(grades, y), None, None))

\* year 10 with a counted course in each term, where the pooled GPA is not
\* the mean of the two term GPAs
C25_Witness ==
    /\ gpa_args = <<"10", None>>
    /\ ~gpa.fault
    /\ LET fall == calculate_gpa(grades, "10", "Fall")
           spring == calculate_gpa(grades, "10", "Spring")
       IN /\ fall.num > 0 /\ spring.num > 0
          /\ 2 * gpa.num * fall.den * spring.den
               # gpa.den * (fall.num * spring.den + spring.num * fall.den)

\* the records of the grades record
GradeRecords(g) ==
    UNION { UNION { Range(g[y][s]) : s \in DOMAIN g[y] } : y \in DOMAIN g }

-----------------------------------------------------------------------------
(* Specification SpecBands: calculate_gpa called on a term that holds one   *)
(* counted course, for every integer score around 0..100 and both scales.   *)

BandScores == (0 - 1)..101
BandScales == {"AP", "CNCC"}

BandInit ==
    /\ \E score \in BandScores, scale \in BandScales :
          grades = [EmptyGrades EXCEPT !["10"]["Fall"] =
                       << Rec("Science", "Biology", score, scale, 1) >>]
    /\ gpa_args = <<"10", "Fall">>
    /\ gpa = Zero
    /\ op = [kind |-> "init"]
    /\ GuiIdle /\ MatchIdle /\ ScoreIdle /\ MergeIdle

\* the caller calls calculate_gpa(grades, "10", "Fall")
BandCall ==
    /\ op.kind = "init"
    /\ gpa' = calculate_gpa(grades, gpa_args[1], gpa_args[2])
    /\ op' = [kind |-> "gpa"]
    /\ UNCHANGED <<grades, gpa_args, gui_vars, match_vars, score_vars, merge_vars>>

BandNext == BandCall

SpecBands == BandInit /\ [][BandNext]_vars

\* the positions of the bands of the scale that contain the score
BandsOf(scale, score) ==
    { k \in DOMAIN GRADE_SCALE[scale] :
        GRADE_SCALE[scale][k].low <= score /\ score <= GRADE_SCALE[scale][k].high }

\* C16: for both the AP and the CNCC scale the bands of GRADE_SCALE partition
\* the integers 0..100 with no gap and no overlap: every integer score from 0
\* to 100 lies in exactly one band, and the course is graded with the points
\* value of that band.
C16_BandsPartition ==
    /\ \A scale \in BandScales : \A score \in 0..100 :
          Cardinality(BandsOf(scale, score)) = 1
    /\ op.kind = "gpa" =>
          LET c == grades["10"]["Fall"][1] IN
          c.score \in 0..100 =>
             /\ ~gpa.fault
             /\ gpa.den = 10
             /\ \A k \in BandsOf(c.scale, c.score) : gpa.num = GRADE_SCALE[c.scale][k].points

\* the scores 96 and 97 are on both sides of a band limit: the course with 97
\* on the CNCC scale was graded 4.3
C16_Witness ==
    /\ op.kind = "gpa"
    /\ grades["10"]["Fall"][1].score = 97
    /\ grades["10"]["Fall"][1].scale = "CNCC"
    /\ BandsOf("CNCC", 96) # BandsOf("CNCC", 97)
    /\ gpa.num = 43 /\ gpa.den = 10

-----------------------------------------------------------------------------
(* Specification SpecScore: parse_score applied to raw spreadsheet values   *)

MaxScoreLen == 4

ScoreAlphabet == {"0", "1", "5", ".", "%", "-", " ", "x"}

RECURSIVE StringsUpTo(_, _)
StringsUpTo(alphabet, n) ==
    IF n = 0 THEN {<<>>}
    ELSE LET shorter == StringsUpTo(alphabet, n - 1)
         IN shorter \cup { Append(w, c) : w \in shorter, c \in alphabet }

\* numbers, numeric text, percentage text, other text, None, other types
ScoreInputs ==
    { PyNone, PyOther }
    \cup { PyInt(v) : v \in {-5, 0, 1, 59, 93, 100, 101, 150} }
    \cup { PyFloat(935, 1000), PyFloat(5, 10), PyFloat(5, 1000), PyFloat(15, 1000),
           PyFloat(-5, 10), PyFloat(15, 10), PyFloat(25, 10), PyFloat(8681, 100),
           PyFloat(995, 10), PyFloat(1004, 10), PyFloat(1005, 10), PyFloat(2505, 10),
           PyInf(1), PyInf(-1), PyNaN }
    \cup { PyStr(w) : w \in StringsUpTo(ScoreAlphabet, MaxScoreLen) }
    \cup { PyStr(<<"8","6",".","8","1","%">>), PyStr(<<"0",".","9","3","3","3">>),
           PyStr(<<"i","n","f">>), PyStr(<<"n","a","n">>), PyStr(<<"+","9","5">>),
           PyStr(<<"1","2","0","%">>), PyStr(<<"A","b","s","e","n","t">>) }

ScoreInit ==
    /\ score_value \in ScoreInputs
    /\ parsed = NotComputed
    /\ op = [kind |-> "score"]
    /\ GuiIdle /\ GpaIdle /\ MatchIdle /\ MergeIdle

\* the import calls parse_score(score_value)
ScoreParse ==
    /\ ~parsed.computed
    /\ parsed' = [computed |-> TRUE, result |-> parse_score(score_value)]
    /\ UNCHANGED <<score_value, op, gui_vars, gpa_vars, match_vars, merge_vars>>

\* the value returned is passed to parse_score again
ScoreAgain ==
    /\ op.kind = "score"
    /\ parsed.computed /\ ~parsed.result.fault
    /\ score_value' = PyInt(parsed.result.v)
    /\ parsed' = [computed |-> TRUE, result |-> parse_score(score_value')]
    /\ op' = [kind |-> "rescore", first |-> score_value]
    /\ UNCHANGED <<gui_vars, gpa_vars, match_vars, merge_vars>>

ScoreNext == ScoreParse \/ ScoreAgain

SpecScore == ScoreInit /\ [][ScoreNext]_vars

\* C8 (as claimed): for every raw input s the normalized score parse_score(s)
\* is an integer with 0 <= parse_score(s) <= 100.
C8_ScoreInRange ==
    parsed.computed =>
        /\ ~parsed.result.fault
        /\ parsed.result.v \in 0..100

-----------------------------------------------------------------------------
(* Specification SpecGrad: check_graduation applied to a student whose      *)
(* requirement progress is, per category, just short of or at the required  *)
(* count, with any subset of the Chinese_Social_Studies courses taken.      *)

OrdinarySubjects == Subjects \ {"Chinese_Social_Studies"}

GradRequirementStates ==
    { [subject \in Subjects |->
          IF subject = "Chinese_Social_Studies"
          THEN [required_courses |-> 3, taken_courses |-> css]
          ELSE [required |-> Requirement(subject).semesters,
                taken |-> Requirement(subject).semesters - short[subject]]] :
        css \in SUBSET Range(Requirement("Chinese_Social_Studies").courses),
        short \in [OrdinarySubjects -> {0, 1}] }

GradInit ==
    /\ student \in { [requirements |-> r] : r \in GradRequirementStates }
    /\ failed_reasons = <<>>
    /\ course_entries = EmptyGrades
    /\ op = [kind |-> "init"]
    /\ GpaIdle /\ MatchIdle /\ ScoreIdle /\ MergeIdle

\* failed_reasons = check_graduation(self.student)
GradCheck ==
    /\ op.kind = "init"
    /\ failed_reasons' = check_graduation(student)
    /\ op' = [kind |-> "check"]
    /\ UNCHANGED <<course_entries, student, gpa_vars, match_vars, score_vars, merge_vars>>

GradNext == GradCheck

SpecGrad == GradInit /\ [][GradNext]_vars

\* a category requirement is satisfied, as the claim states it
Satisfied(requirements, subject) ==
    IF subject = "Chinese_Social_Studies"
    THEN \A c \in {"Chinese History", "Chinese Geography", "Chinese Politics"} :
            c \in requirements[subject].taken_courses
    ELSE requirements[subject].taken >= requirements[subject].required

\* C3: check_graduation returns an empty list if and only if every category
\* requirement is satisfied, and it returns exactly one deficiency entry per
\* unsatisfied category (and none for a satisfied one).
C3_DeficienciesExact ==
    op.kind = "check" =>
        LET unsatisfied == { c \in Subjects : ~Satisfied(student.requirements, c) } IN
        /\ (failed_reasons = <<>>) <=> (\A c \in Subjects : Satisfied(student.requirements, c))
        /\ Len(failed_reasons) = Cardinality(unsatisfied)
        /\ \A c \in Subjects :
              Cardinality({ i \in DOMAIN failed_reasons : failed_reasons[i].subject = c })
                = IF c \in unsatisfied THEN 1 ELSE 0

\* the check ran on a student with every requirement met and returned the
\* empty list
C3_Witness ==
    /\ op.kind = "check"
    /\ failed_reasons = <<>>
    /\ student.requirements["Chinese"].taken = 6
    /\ Cardinality(student.requirements["Chinese_Social_Studies"].taken_courses) = 3

-----------------------------------------------------------------------------
(* Specification Spec: the GradeTracker window.  course_entries[y][s] is    *)
(* the course_entries list of the SemesterFrame of year y and term s (the   *)
(* tree-view item id of an entry is its position in the list).              *)

MaxEntries == 3

Entry(subject, course, score, scale) ==
    [subject |-> subject, course |-> course, score |-> score, scale |-> scale]

\* what the user types into the Add New Course fields: subject, course,
\* score (an int read from the IntVar), scale
AddInputs ==
    { Entry("Chinese_Social_Studies", "Chinese History", 90, "AP"),
      Entry("Science", "Technology", 0, "Not Included"),
      Entry("Electives", "Basket Weaving", 150, "AP"),
      Entry("", "Biology", 90, "AP") }

\* what the user types into the Edit Course dialog
EditInputs ==
    { Entry("Chinese_Social_Studies", "Chinese Politics", 88, "AP"),
      Entry("Science", "", 88, "AP") }

\* the terms whose Add New Course form is used
AddTerms == { <<"10", "Fall">> }

AllTerms == Range(Years) \X Range(Semesters)

\* .tgrt files the user can load: data["courses"][grade][semester] is a list
\* of course dictionaries, scores as stored (int or float)
FileCourse(subject, course, score, scale) ==
    [subject |-> subject, course |-> course, score |-> score, scale |-> scale]

Files ==
    { [courses |-> [y \in {} |-> <<>>]],
      [courses |->
         ("10" :> ("Fall" :> << FileCourse("Chinese_Social_Studies", "Chinese History",
                                           PyFloat(9, 10), "AP"),
                                FileCourse("Chinese_Social_Studies", "Chinese Geography",
                                           PyFloat(775, 10), "CNCC") >>
                   @@ "Spring" :> << >>))
         @@ ("12" :> ("Spring" :> << FileCourse("Technology", "Technology",
                                               PyInt(0), Absent) >>))] }

\* fix_decimal_scores for one score: a number in (0, 1) is multiplied by 100,
\* a float is rounded to an int, an int is kept
FixScore(score) ==
    LET f == ToFloat(score)
        scaled == IF IsFraction(f) THEN Times100(f) ELSE f
    IN IF score.t = "int" /\ ~IsFraction(f) THEN score.n
       ELSE round_score(scaled).v

\* the entries load_data puts into the frame of (grade, semester)
LoadedEntries(file, grade, semester) ==
    IF grade \in DOMAIN file.courses /\ semester \in DOMAIN file.courses[grade]
    THEN LET courses == file.courses[grade][semester] IN
         [i \in DOMAIN courses |->
             Entry(courses[i].subject, courses[i].course, FixScore(courses[i].score),
                   IF courses[i].scale = Absent THEN "AP" ELSE courses[i].scale)]
    ELSE <<>>

Init ==
    /\ course_entries = EmptyGrades
    /\ student = Student__init__
    /\ failed_reasons = <<>>
    /\ op = [kind |-> "init"]
    /\ GpaIdle /\ MatchIdle /\ ScoreIdle /\ MergeIdle

\* SemesterFrame.add_course
add_course(grade, semester, in) ==
    /\ CountCourses(course_entries) < MaxEntries
    /\ LET score == round_score(PyInt(in.score)).v IN
       IF in.subject = "" \/ in.course = ""
       THEN UNCHANGED course_entries
       ELSE course_entries' = [course_entries EXCEPT ![grade][semester] =
                                 Append(@, Entry(in.subject, in.course, score, in.scale))]
    /\ op' = [kind |-> "change"]
    /\ UNCHANGED <<student, failed_reasons>>

\* SemesterFrame.edit_course, save_changes on the selected entry
edit_course(grade, semester, i, in) ==
    /\ i \in DOMAIN course_entries[grade][semester]
    /\ IF in.subject = "" \/ in.course = ""
       THEN UNCHANGED course_entries
       ELSE course_entries' = [course_entries EXCEPT ![grade][semester][i] =
                                 Entry(in.subject, in.course,
                                       round_score(PyInt(in.score)).v, in.scale)]
    /\ op' = [kind |-> "change"]
    /\ UNCHANGED <<student, failed_reasons>>

\* the entries of s whose positions are not selected, in order
RECURSIVE Unselected(_, _, _)
Unselected(s, selected, i) ==
    IF i > Len(s) THEN <<>>
    ELSE (IF i \in selected THEN <<>> ELSE <<s[i]>>) \o Unselected(s, selected, i + 1)

\* SemesterFrame.delete_course on a non-empty selection
delete_course(grade, semester, selected) ==
    /\ selected # {}
    /\ selected \subseteq DOMAIN course_entries[grade][semester]
    /\ course_entries' = [course_entries EXCEPT ![grade][semester] =
                             Unselected(@, selected, 1)]
    /\ op' = [kind |-> "change"]
    /\ UNCHANGED <<student, failed_reasons>>

\* GradeFrame.copy_fall_to_spring
copy_fall_to_spring(grade) ==
    LET fall_courses == course_entries[grade]["Fall"] IN
    /\ fall_courses # <<>>
    /\ course_entries' = [course_entries EXCEPT ![grade]["Spring"] =
          [i \in DOMAIN fall_courses |->
              [fall_courses[i] EXCEPT !.score = round_score(PyInt(@)).v]]]
    /\ CountCourses(course_entries') <= MaxEntries
    /\ op' = [kind |-> "change"]
    /\ UNCHANGED <<student, failed_reasons>>

\* GradeTracker.load_data: every frame is cleared and refilled from the file;
\* self.student is not touched (the GPA text shown afterwards is not state)
load_data(file) ==
    /\ course_entries' = [y \in Range(Years) |-> [s \in Range(Semesters) |->
                             LoadedEntries(file, y, s)]]
    /\ op' = [kind |-> "change"]
    /\ UNCHANGED <<student, failed_reasons>>

\* GradeTracker.check_graduation_req
check_graduation_req ==
    /\ student' = update_student_data(course_entries)
    /\ failed_reasons' = check_graduation(student')
    /\ op' = [kind |-> "check"]
    /\ UNCHANGED course_entries

Next ==
    /\ \/ \E t \in AddTerms, in \in AddInputs : add_course(t[1], t[2], in)
       \/ \E t \in AllTerms, i \in 1..MaxEntries, in \in EditInputs :
             edit_course(t[1], t[2], i, in)
       \/ \E t \in AllTerms, selected \in SUBSET (1..MaxEntries) :
             delete_course(t[1], t[2], selected)
       \/ \E y \in Range(Years) : copy_fall_to_spring(y)
       \/ \E file \in Files : load_data(file)
       \/ check_graduation_req
    /\ UNCHANGED <<gpa_vars, match_vars, score_vars, merge_vars>>

Spec == Init /\ [][Next]_vars

\* requirement state computed from the course records alone: per category
\* the number of records (all six terms) whose course name the category
\* lists, for Chinese_Social_Studies the set of its listed names recorded
ScratchRequirements(entries) ==
    [subject \in Subjects |->
        IF subject = "Chinese_Social_Studies"
        THEN [required_courses |-> 3,
              taken_courses |->
                 { c \in Range(Requirement(subject).courses) :
                     \E t \in AllTerms : \E i \in DOMAIN entries[t[1]][t[2]] :
                        entries[t[1]][t[2]][i].course = c }]
        ELSE [required |-> Requirement(subject).semesters,
              taken |-> Cardinality(
                 { p \in AllTerms \X (1..(MaxEntries + 1)) :
                     /\ p[2] \in DOMAIN entries[p[1][1]][p[1][2]]
                     /\ entries[p[1][1]][p[1][2]][p[2]].course
                           \in Range(Requirement(subject).courses) })]]

\* C4: after any sequence of add, edit, delete, copy and load operations
\* followed by a graduation check, the requirement state the check read
\* equals the state computed from scratch from the current course records,
\* and the result is the one check_graduation gives on that state; nothing
\* is carried over from an earlier check.
C4_DerivedView ==
    op.kind = "check" =>
        /\ student.requirements = ScratchRequirements(course_entries)
        /\ failed_reasons =
             check_graduation([requirements |-> ScratchRequirements(course_entries)])

\* a check ran after an earlier check had counted courses that were then
\* changed: the student object still held progress of the earlier check
C4_Witness ==
    /\ op.kind = "check"
    /\ student.requirements["Technology"].taken = 2
    /\ student.requirements["Chinese_Social_Studies"].taken_courses = {"Chinese Politics"}

\* the course names recorded in the six terms
RecordedNames(entries) ==
    UNION { { entries[t[1]][t[2]][i].course : i \in DOMAIN entries[t[1]][t[2]] } :
              t \in AllTerms }

RequiredCssCourses == {"Chinese History", "Chinese Geography", "Chinese Politics"}

\* the deficiency entries check_graduation returned for a category
ReasonsFor(subject) ==
    { i \in DOMAIN failed_reasons : failed_reasons[i].subject = subject }

\* C13: the Chinese_Social_Studies requirement is reported satisfied if and
\* only if Chinese History, Chinese Geography and Chinese Politics all appear
\* among the course names recorded in the six terms; a repeated course or
\* another course does not stand in for a missing one, and the deficiency
\* entry lists exactly the missing names.
C13_ChineseSocialStudies ==
    op.kind = "check" =>
        LET names == RecordedNames(course_entries)
            reasons == ReasonsFor("Chinese_Social_Studies")
        IN /\ (reasons = {}) <=> (RequiredCssCourses \subseteq names)
           /\ \A i \in reasons :
                 failed_reasons[i].missing = RequiredCssCourses \ names

\* Chinese History was recorded twice next to a course of another category;
\* the check reported Chinese Geography and Chinese Politics as missing
C13_Witness ==
    /\ op.kind = "check"
    /\ Len(course_entries["10"]["Fall"]) = 3
    /\ Cardinality({ i \in 1..3 :
                       course_entries["10"]["Fall"][i].course = "Chinese History" }) = 2
    /\ \E i \in ReasonsFor("Chinese_Social_Studies") :
          failed_reasons[i].missing = {"Chinese Geography", "Chinese Politics"}

\* the positions <<term, index>> of the records whose course name is in the
\* canonical list of the category
RecordsListedUnder(entries, subject) ==
    { p \in AllTerms \X (1..(MaxEntries + 1)) :
        /\ p[2] \in DOMAIN entries[p[1][1]][p[1][2]]
        /\ \E n \in DOMAIN Requirement(subject).courses :
              entries[p[1][1]][p[1][2]][p[2]].course = Requirement(subject).courses[n] }

\* C14: for every category other than Chinese_Social_Studies the requirement
\* is reported satisfied if and only if the number of course records across
\* all six terms whose course name is in the category's canonical list is
\* >= the category's required count.
C14_OrdinaryCategories ==
    op.kind = "check" =>
        \A c \in OrdinarySubjects :
            (ReasonsFor(c) = {}) <=>
               (Cardinality(RecordsListedUnder(course_entries, c)) >= Requirement(c).semesters)

\* two Technology records, one in a Fall term and one in a Spring term, meet
\* the Technology requirement of 2 while Science is still reported
C14_Witness ==
    /\ op.kind = "check"
    /\ \E i \in DOMAIN course_entries["10"]["Fall"] :
          course_entries["10"]["Fall"][i].course = "Technology"
    /\ \E i \in DOMAIN course_entries["12"]["Spring"] :
          course_entries["12"]["Spring"][i].course = "Technology"
    /\ Cardinality(RecordsListedUnder(course_entries, "Technology")) = 2
    /\ ReasonsFor("Technology") = {}
    /\ ReasonsFor("Science") # {}

\* the category a course name advances: the first one in catalog order whose
\* canonical list contains the name, None when no list contains it
FirstListing(course_name) ==
    LET listing == { k \in DOMAIN GRADUATION_REQUIREMENTS :
                       course_name \in Range(GRADUATION_REQUIREMENTS[k].courses) }
    IN IF listing = {} THEN None
       ELSE GRADUATION_REQUIREMENTS[CHOOSE k \in listing : \A j \in listing : k <= j].subject

\* the positions <<term, index>> of the course records
AllRecords(entries) ==
    { p \in AllTerms \X (1..(MaxEntries + 1)) : p[2] \in DOMAIN entries[p[1][1]][p[1][2]] }

CourseAt(entries, p) == entries[p[1][1]][p[1][2]][p[2]].course

\* the progress of all ordinary categories together
TotalTaken(requirements) ==
    SumSeq([k \in DOMAIN GRADUATION_REQUIREMENTS |->
              IF GRADUATION_REQUIREMENTS[k].subject = "Chinese_Social_Studies" THEN 0
              ELSE requirements[GRADUATION_REQUIREMENTS[k].subject].taken])

\* C15: when requirement state is recomputed, each course record advances the
\* progress of at most one category, the first category in catalog order
\* whose canonical list contains the record's course name; a record whose
\* name is in no list advances none.
C15_FirstCategoryOnly ==
    op.kind = "check" =>
        LET records == AllRecords(course_entries)
            advancing(c) == { p \in records : FirstListing(CourseAt(course_entries, p)) = c }
        IN /\ \A c \in OrdinarySubjects :
                 student.requirements[c].taken = Cardinality(advancing(c))
           /\ student.requirements["Chinese_Social_Studies"].taken_courses =
                 { CourseAt(course_entries, p) : p \in advancing("Chinese_Social_Studies") }
           /\ TotalTaken(student.requirements) =
                 Cardinality(records \ (advancing(None) \cup advancing("Chinese_Social_Studies")))

\* "Basket Weaving", recorded under subject Electives and in no canonical
\* list, stands next to a Technology record: only Technology advanced
C15_Witness ==
    /\ op.kind = "check"
    /\ \E p \in AllRecords(course_entries) :
          /\ CourseAt(course_entries, p) = "Basket Weaving"
          /\ FirstListing("Basket Weaving") = None
    /\ \E p \in AllRecords(course_entries) : CourseAt(course_entries, p) = "Technology"
    /\ student.requirements["Technology"].taken = 1
    /\ student.requirements["Electives"].taken = 0
    /\ TotalTaken(student.requirements) = 1

-----------------------------------------------------------------------------
(* Specification SpecMatch: find_best_match called by the import on a raw   *)
(* course name, a list of catalog names and a threshold.                    *)

MaxListLen == 2

\* names, spelled character by character
Name_Biology == <<"B", "i", "o", "l", "o", "g", "y">>
Name_BiologyHonors == <<"B", "i", "o", "l", "o", "g", "y", " ", "H", "o", "n", "o", "r", "s">>
Name_PE == <<"P", "E">>
Name_Korean == <<"K", "o", "r", "e", "a", "n">>
Name_DanceI == <<"D", "a", "n", "c", "e", " ", "I">>
Name_Chemistry == <<"C", "h", "e", "m", "i", "s", "t", "r", "y">>
Name_MathA1 == <<"M", "a", "t", "h", " ", "A", "1">>
Name_MathsFoundations == <<"M", "a", "t", "h", "s", " ", "F", "o", "u", "n", "d", "a", "t", "i", "o", "n", "s">>
Name_biology == <<"b", "i", "o", "l", "o", "g", "y">>
Name_Underwater == <<"U", "n", "d", "e", "r", "w", "a", "t", "e", "r", " ", "B", "a", "s", "k", "e", "t", " ", "W", "e", "a", "v", "i", "n", "g">>
Name_MathsA1 == <<"M", "a", "t", "h", "s", " ", "A", "1">>
Name_AP_Biology == <<"A", "P", "_", "B", "i", "o", "l", "o", "g", "y">>
Name_Empty == <<>>
\* "Modern Dance Performance Workshop"
Name_ModernDance ==
    <<"M", "o", "d", "e", "r", "n", " ", "D", "a", "n", "c", "e", " ", "P", "e",
    "r", "f", "o", "r", "m", "a", "n", "c", "e", " ", "W", "o", "r", "k", "s",
    "h", "o", "p">>

\* catalog names (GRADUATION_REQUIREMENTS) among the candidates
CanonicalSample == { Name_Biology, Name_BiologyHonors, Name_PE, Name_Korean, Name_DanceI }

\* names a course_list is made of: catalog names and other names
CandidateNames == CanonicalSample \cup { Name_Chemistry, Name_MathA1, Name_MathsFoundations }

\* raw names: catalog names, other spellings, unrelated names, the empty name
InputNames ==
    CanonicalSample \cup
    { Name_biology, Name_Underwater, Name_MathsA1, Name_AP_Biology, Name_Empty,
      Name_ModernDance }

RECURSIVE ListsUpTo(_, _)
ListsUpTo(S, n) ==
    IF n = 0 THEN {<<>>}
    ELSE LET shorter == ListsUpTo(S, n - 1)
         IN shorter \cup { Append(l, x) : l \in shorter, x \in S }

DefaultThreshold == Frac(2, 5)
Thresholds == { DefaultThreshold, Frac(0, 1), Frac(3, 2) }

MatchInit ==
    /\ m_args \in { [course_name |-> n, course_list |-> l, threshold |-> t] :
                      n \in InputNames, l \in ListsUpTo(CandidateNames, MaxListLen),
                      t \in Thresholds }
    /\ m_result = NotComputed
    /\ op = [kind |-> "match"]
    /\ GuiIdle /\ GpaIdle /\ ScoreIdle /\ MergeIdle

\* the import calls find_best_match(course_name, course_list, threshold)
MatchCall ==
    /\ ~m_result.computed
    /\ m_result' = [computed |-> TRUE,
                    result |-> find_best_match(m_args.course_name, m_args.course_list,
                                               m_args.threshold)]
    /\ UNCHANGED <<m_args, op, gui_vars, gpa_vars, score_vars, merge_vars>>

\* the name find_best_match returned is passed to it again with the same list
MatchAgain ==
    /\ op.kind = "match"
    /\ m_result.computed /\ m_result.result.match # None
    /\ m_args' = [m_args EXCEPT !.course_name = m_result.result.match]
    /\ m_result' = [computed |-> TRUE,
                    result |-> find_best_match(m_args'.course_name, m_args'.course_list,
                                               m_args'.threshold)]
    /\ op' = [kind |-> "rematch", first |-> m_args.course_name]
    /\ UNCHANGED <<gui_vars, gpa_vars, score_vars, merge_vars>>

MatchNext == MatchCall \/ MatchAgain

SpecMatch == MatchInit /\ [][MatchNext]_vars

\* the tokens of a name as the claims define them: the lower-cased
\* alphanumeric words of length >= 3, a word being a run of alphanumerics
\* that lies between two word boundaries (the underscore is a word character,
\* so a run next to one is not a word)
TokensOf(name) ==
    LET s == Lower(name) IN
    { SubSeq(s, p[1], p[2]) :
        p \in { q \in (DOMAIN s) \X (DOMAIN s) :
                  /\ q[2] - q[1] + 1 >= 3
                  /\ \A k \in q[1]..q[2] : s[k] \in TokenChars
                  /\ q[1] = 1 \/ s[q[1] - 1] \notin WordChars
                  /\ q[2] = Len(s) \/ s[q[2] + 1] \notin WordChars } }

\* C5: a non-None match returned by find_best_match shares at least one
\* token with the input name; a candidate with an empty token intersection
\* is never returned, however high its similarity ratio.
C5_MatchSharesToken ==
    (m_result.computed /\ m_result.result.match # None) =>
        TokensOf(m_args.course_name) \cap TokensOf(m_result.result.match) # {}

\* "Biology Honors" was resolved to "Biology", with which it shares "biology"
C5_Witness ==
    /\ m_result.computed
    /\ m_args.course_name = Name_BiologyHonors
    /\ m_args.course_list = <<Name_Biology, Name_Chemistry>>
    /\ m_result.result.match = Name_Biology
    /\ m_result.result.method = "common_words"

\* the position of the highest-scoring candidate of the list, the first one
\* when several have the highest score; 0 for an empty list
RECURSIVE ScoresFrom(_, _, _)
ScoresFrom(course_name, course_list, k) ==
    IF k > Len(course_list) THEN <<>>
    ELSE <<adjusted_similarity(course_name, course_list[k])>>
         \o ScoresFrom(course_name, course_list, k + 1)

TopCandidate(course_name, course_list) ==
    LET score == ScoresFrom(course_name, course_list, 1)
    IN IF course_list = <<>> THEN 0
       ELSE CHOOSE i \in DOMAIN course_list :
              /\ \A j \in DOMAIN course_list : FracLeq(score[j], score[i])
              /\ \A j \in 1..(i - 1) : FracLess(score[j], score[i])

\* candidate j of the list passes both acceptance tests on its own
PassesBoth(course_name, course, threshold) ==
    /\ TokensOf(course_name) \cap TokensOf(course) # {}
    /\ FracLeq(threshold, adjusted_similarity(course_name, course))

\* C6: find_best_match returns a match if and only if the single
\* highest-scoring candidate of the whole list shares a token with the input
\* and its boosted score is >= threshold (inclusive); the match is then that
\* candidate, and when the top candidate fails either test the result is no
\* match even if a lower-scoring candidate would pass both.
C6_OnlyTopCandidate ==
    m_result.computed =>
        LET name == m_args.course_name
            list == m_args.course_list
            top == TopCandidate(name, list)
            accepted == top # 0 /\ PassesBoth(name, list[top], m_args.threshold)
        IN IF accepted
           THEN /\ m_result.result.match # None
                /\ m_result.result.match = list[top]
                /\ FracEq(m_result.result.similarity,
                          adjusted_similarity(name, list[top]))
           ELSE m_result.result = NoMatch

\* "Maths A1": the top candidate "Math A1" shares no token, the second
\* candidate "Maths Foundations" passes both tests, and nothing is returned
C6_Witness ==
    /\ m_result.computed
    /\ m_args.course_name = Name_MathsA1
    /\ m_args.course_list = <<Name_MathA1, Name_MathsFoundations>>
    /\ m_args.threshold = DefaultThreshold
    /\ TopCandidate(m_args.course_name, m_args.course_list) = 1
    /\ PassesBoth(m_args.course_name, Name_MathsFoundations, m_args.threshold)
    /\ m_result.result.match = None

\* find_best_match(x, [x]) was called with the default threshold on a
\* non-empty catalog name x
SelfMatchCall ==
    /\ m_result.computed
    /\ m_args.course_name \in CanonicalSample
    /\ m_args.course_name # <<>>
    /\ m_args.course_list = <<m_args.course_name>>
    /\ m_args.threshold = DefaultThreshold

\* C7 (as claimed): for any non-empty canonical name x, find_best_match(x, [x])
\* returns a match on x with score 1.0.
C7_SelfMatchScoreOne ==
    SelfMatchCall =>
        /\ m_result.result.match # None
        /\ m_result.result.match = m_args.course_name
        /\ FracEq(m_result.result.similarity, Frac(1, 1))

\* C7 (amended): for a non-empty canonical name x, find_best_match(x, [x])
\* returns a match on x exactly when x has a token of length >= 3, and the
\* score is then 1 + 0.5 * (sum of the lengths of x's distinct tokens) / len(x);
\* for a name without such a token (such as "PE") it returns no match.
C7_SelfMatchBoosted ==
    SelfMatchCall =>
        LET x == m_args.course_name IN
        IF TokensOf(x) # {}
        THEN /\ m_result.result.match # None
             /\ m_result.result.match = x
             /\ FracEq(m_result.result.similarity,
                       FracAdd(Frac(1, 1), Frac(SumLen(TokensOf(x)), 2 * Len(x))))
        ELSE m_result.result = NoMatch

\* "Biology" was matched against the list ["Biology"] and returned with
\* score 1.5
C7_Witness ==
    /\ SelfMatchCall
    /\ m_args.course_name = Name_Biology
    /\ m_result.result.match = Name_Biology
    /\ FracEq(m_result.result.similarity, Frac(3, 2))

-----------------------------------------------------------------------------
(* Claims about parse_score on unparsable input and on its own output       *)

\* text that is a decimal numeral: an optional sign, then digits with at most
\* one point and at least one digit
IsNumeral(chars) ==
    LET body == IF chars # <<>> /\ Head(chars) \in {"+", "-"} THEN Tail(chars) ELSE chars
        points == { i \in DOMAIN body : body[i] = "." }
    IN /\ Cardinality(points) <= 1
       /\ \E i \in DOMAIN body : body[i] \in Digits
       /\ \A i \in DOMAIN body : body[i] \in Digits \cup {"."}

\* an input that is not a score: None, a value that is neither a number nor
\* text, text that is not a numeral, and text with a percent sign whose
\* remainder is not a numeral
Unparsable(value) ==
    \/ value.t \in {"none", "object"}
    \/ /\ value.t = "str"
       /\ ~IsNumeral(Strip(RemoveChar(Strip(value.s), "%")))

\* C17 (as claimed): parse_score returns 0 and raises no error for every
\* unparsable input: None, non-numeric text, text with a percent sign whose
\* remainder is not a number, and values of any other type.
C17_UnparsableIsZero ==
    (parsed.computed /\ Unparsable(score_value)) =>
        (~parsed.result.fault /\ parsed.result.v = 0)

\* C18: parse_score is idempotent on its own output: whenever parse_score(s)
\* returns a value, parse_score of that value returns the same value.
C18_IdempotentOnOutput ==
    [][ (op.kind = "score" /\ op'.kind = "rescore") => parsed' = parsed ]_vars

\* "86.81%" was normalised to 87, and 87 was normalised to 87 again
C18_Witness ==
    /\ op.kind = "rescore"
    /\ op.first = PyStr(<<"8", "6", ".", "8", "1", "%">>)
    /\ score_value = PyInt(87)
    /\ parsed = [computed |-> TRUE, result |-> Returned(87)]

\* text that ends in a percent sign after a number
PercentSuffixed(chars) ==
    LET s == Strip(chars) IN
    /\ s # <<>>
    /\ s[Len(s)] = "%"
    /\ ~IsErr(ParseFloat(SubSeq(s, 1, Len(s) - 1)))

\* text that float() reads as a number, without a percent sign
PlainNumericText(chars) ==
    /\ \A i \in DOMAIN chars : chars[i] # "%"
    /\ ~IsErr(ParseFloat(chars))

\* C24 (as claimed): parse_score multiplies by 100 before rounding exactly the
\* inputs that are a number, or plain numeric text, strictly between 0 and 1;
\* a number or plain numeric text <= 0 or >= 1, and every percent-suffixed
\* text, is rounded to the nearest integer without rescaling.
C24_RescaleExactlyFractions ==
    (parsed.computed /\ op.kind = "score") =>
        LET value == score_value
            plain == \/ value.t \in {"int", "float"}
                     \/ value.t = "str" /\ PlainNumericText(value.s)
            percent == value.t = "str" /\ PercentSuffixed(value.s)
            stripped == IF value.t = "str" THEN Strip(value.s) ELSE <<>>
            x == IF percent THEN ParseFloat(SubSeq(stripped, 1, Len(stripped) - 1))
                 ELSE ToFloat(value)
            between == x.d # 0 /\ 0 < x.n /\ x.n < x.d
            ordered == x.d # 0 \/ x.n # 0
        IN ((plain \/ percent) /\ ordered) =>
               /\ ~parsed.result.fault
               /\ x.d # 0 =>
                    parsed.result.v = IF plain /\ between
                                      THEN RoundHalfEven(100 * x.n, x.d)
                                      ELSE RoundHalfEven(x.n, x.d)

-----------------------------------------------------------------------------
(* Claims about the resolver's round trip and about what its result tells   *)

\* C19: round trip: whenever find_best_match(name, list) returns a canonical
\* name c, find_best_match(c, list) with the same list returns c again, with
\* a score at least as high as that of every other candidate in the list.
C19_RoundTrip ==
    op.kind = "rematch" =>
        LET c == m_args.course_name
            list == m_args.course_list
        IN /\ m_result.result.match # None
           /\ m_result.result.match = c
           /\ \A j \in DOMAIN list :
                 FracLeq(adjusted_similarity(c, list[j]), m_result.result.similarity)

\* "Biology Honors" was resolved to "Biology" from a list that also holds
\* "Biology Honors"'s neighbour "Chemistry"; "Biology" resolved to itself
C19_Witness ==
    /\ op.kind = "rematch"
    /\ op.first = Name_BiologyHonors
    /\ m_args.course_name = Name_Biology
    /\ m_args.course_list = <<Name_Chemistry, Name_Biology>>
    /\ m_result.result.match = Name_Biology
    /\ FracEq(m_result.result.similarity, Frac(3, 2))

\* what the import records for a course whose name is not a catalog name,
\* from the tuple find_best_match returned
ImportStatus(result) ==
    IF result.match # None /\ result.match # <<>>
    THEN [status |-> "matched",
          use_preset_name |-> /\ result.method = "common_words"
                              /\ FracLeq(Frac(2, 5), result.similarity)]
    ELSE [status |-> "unmatched"]

\* no candidate of the list shares a token with the name
NoCandidateMatched(course_name, course_list) ==
    \A j \in DOMAIN course_list : TokensOf(course_name) \cap TokensOf(course_list[j]) = {}

\* the top candidate shares a token with the name and its score is below the
\* threshold
MatchedBelowThreshold(course_name, course_list, threshold) ==
    LET top == TopCandidate(course_name, course_list) IN
    /\ top # 0
    /\ TokensOf(course_name) \cap TokensOf(course_list[top]) # {}
    /\ FracLess(adjusted_similarity(course_name, course_list[top]), threshold)

\* C20 (as claimed): the result of find_best_match lets the caller tell "no
\* candidate matched at all" apart from "a candidate matched but its score
\* was below the threshold": the second case gives a result different from
\* the one of the first case, and the import classifies it differently.
C20_BelowThresholdDistinct ==
    ( /\ m_result.computed
      /\ MatchedBelowThreshold(m_args.course_name, m_args.course_list, m_args.threshold) )
    => LET unmatched == find_best_match(m_args.course_name, <<>>, m_args.threshold) IN
       /\ m_result.result # unmatched
       /\ ImportStatus(m_result.result) # ImportStatus(unmatched)

\* C29: find_best_match raises no ZeroDivisionError and returns its four
\* values; the division by len(course_name) is reached for a candidate only
\* when the input shares a token of length >= 3 with it, so the length is
\* >= 3; for an empty input name or an empty list the result is
\* (None, 0, "none", []).
C29_NoDivisionByZero ==
    m_result.computed =>
        LET name == m_args.course_name
            list == m_args.course_list
        IN /\ ~IsErr(m_result.result)
           /\ DOMAIN m_result.result = {"match", "similarity", "method", "common_words"}
           /\ (name = <<>> \/ list = <<>>) => m_result.result = NoMatch
           /\ \A k \in DOMAIN list :
                has_common_words(name, list[k], 3).has_common
                    => /\ \E w \in TokensOf(name) \cap TokensOf(list[k]) : Len(w) >= 3
                       /\ Len(name) >= 3

\* the empty name against a list of candidates
C29_Witness ==
    /\ m_result.computed
    /\ m_args.course_name = <<>>
    /\ m_args.course_list # <<>>
    /\ m_result.result = NoMatch

-----------------------------------------------------------------------------
(* Specification SpecImport: import_excel stores the rows of one student,   *)
(* resolving each course name against the catalog.                          *)

MaxRows == 2

\* (mutant) the catalog test ignores the case of the letters
InCatalog_IgnoreCase(original_course_name, all_courses) ==
    \E k \in DOMAIN all_courses : Lower(all_courses[k]) = Lower(original_course_name)

\* original_course_name in all_courses
InCatalog(original_course_name, all_courses) ==
    \E k \in DOMAIN all_courses : all_courses[k] = original_course_name

\* matched_course_name of a row whose name is not in the catalog, from the
\* result find_best_match gave for it
MatchedCourseName(original_course_name, result) ==
    IF /\ ImportStatus(result).status = "matched"
       /\ ImportStatus(result).use_preset_name
    THEN result.match
    ELSE original_course_name

\* the catalog names the import resolves against
ImportCatalog == { Name_Biology, Name_BiologyHonors, Name_PE, Name_DanceI }

\* the course names of the spreadsheet rows
ImportNames ==
    { Name_Biology, Name_biology, Name_AP_Biology, Name_PE, Name_Underwater,
      Name_ModernDance, Name_Empty }

\* the subject determine_subject_category gives a row
ImportSubjects == { "Science", "Electives" }

\* get_all_courses(): list(set(all_courses)), the names without repetition
\* in the order the set yields them
ImportCatalogs ==
    { l \in ListsUpTo(ImportCatalog, MaxListLen) : Cardinality(Range(l)) = Len(l) }

ImportInit ==
    /\ m_args \in { [course_name |-> <<>>, course_list |-> l, threshold |-> DefaultThreshold] :
                      l \in ImportCatalogs }
    /\ m_result = NotComputed
    /\ grades = EmptyGrades
    /\ gpa_args = <<None, None>>
    /\ gpa = Zero
    /\ op = [kind |-> "init"]
    /\ GuiIdle /\ ScoreIdle /\ MergeIdle

\* import_excel, one row of data["courses"]: the name is resolved and the
\* course is stored in student.grades[grade][semester]
import_course(grade, semester, original_course_name, subject, score) ==
    /\ Len(grades[grade][semester]) < MaxRows
    /\ IF InCatalog(original_course_name, m_args.course_list)
       THEN /\ grades' = [grades EXCEPT ![grade][semester] =
                             Append(@, [subject |-> subject, course |-> original_course_name,
                                        score |-> score, scale |-> "AP", credits |-> 1])]
            /\ UNCHANGED <<m_args, m_result>>
       ELSE /\ m_args' = [m_args EXCEPT !.course_name = original_course_name]
            /\ m_result' = [computed |-> TRUE,
                            result |-> find_best_match(original_course_name,
                                                       m_args.course_list, DefaultThreshold)]
            /\ grades' = [grades EXCEPT ![grade][semester] =
                             Append(@, [subject |-> subject,
                                        course |-> MatchedCourseName(original_course_name,
                                                                     m_result'.result),
                                        score |-> score, scale |-> "AP", credits |-> 1])]
    /\ op' = [kind |-> "import", original_course_name |-> original_course_name]
    /\ UNCHANGED <<gpa_args, gpa, gui_vars, score_vars, merge_vars>>

ImportNext ==
    \E name \in ImportNames, subject \in ImportSubjects :
        import_course("10", "Fall", name, subject, 90)

SpecImport == ImportInit /\ [][ImportNext]_vars

\* the record import_excel stored last
LastStored == grades["10"]["Fall"][Len(grades["10"]["Fall"])]

\* C23: the name stored for a row is the resolver's match only when the raw
\* name is not exactly a catalog name and find_best_match returned a match;
\* in every other case the raw name is stored unchanged, so an exact catalog
\* name is never replaced.
C23_StoredName ==
    op.kind = "import" =>
        \A result \in { find_best_match(op.original_course_name, m_args.course_list,
                                        DefaultThreshold) } :
            LET raw == op.original_course_name
                exact == raw \in Range(m_args.course_list)
            IN /\ (~exact /\ result.match # None)
                    => (LastStored.course # None /\ LastStored.course = result.match)
               /\ (exact \/ result.match = None) => LastStored.course = raw

\* "biology" is not a catalog name; "Biology" is stored for it
C23_Witness ==
    /\ op.kind = "import"
    /\ op.original_course_name = Name_biology
    /\ LastStored.course = Name_Biology
    /\ m_result.computed

-----------------------------------------------------------------------------
(* find_best_match over reordered candidate lists *)

\* candidates that tie: string_similarity and has_common_words lower-case
\* both names, so "Biology" and "biology" score the same against any input
OrderCandidates ==
    { Name_Biology, Name_biology, Name_BiologyHonors, Name_MathA1, Name_DanceI }

OrderInputs ==
    { Name_Biology, Name_BiologyHonors, Name_AP_Biology, Name_Underwater,
      Name_Korean, Name_Empty }

OrderLists == ListsUpTo(OrderCandidates, MaxListLen)

RECURSIVE CountIn(_, _)
CountIn(list, x) ==
    IF list = <<>> THEN 0
    ELSE (IF Head(list) = x THEN 1 ELSE 0) + CountIn(Tail(list), x)

\* the lists that hold the candidates of list in another order
Reorderings(list) ==
    { l \in OrderLists :
        /\ Len(l) = Len(list)
        /\ l # list
        /\ \A c \in OrderCandidates : CountIn(l, c) = CountIn(list, c) }

OrderInit ==
    /\ m_args \in { [course_name |-> n, course_list |-> l, threshold |-> t] :
                      n \in OrderInputs, l \in OrderLists, t \in Thresholds }
    /\ m_result = NotComputed
    /\ op = [kind |-> "match"]
    /\ GuiIdle /\ GpaIdle /\ ScoreIdle /\ MergeIdle

\* find_best_match(course_name, course_list, threshold)
OrderCall ==
    /\ ~m_result.computed
    /\ m_result' = [computed |-> TRUE,
                    result |-> find_best_match(m_args.course_name, m_args.course_list,
                                               m_args.threshold)]
    /\ UNCHANGED <<m_args, op, gui_vars, gpa_vars, score_vars, merge_vars>>

\* the same name is resolved against the same candidates in another order
OrderShuffle ==
    /\ op.kind = "match"
    /\ m_result.computed
    /\ \E l \in Reorderings(m_args.course_list) :
         /\ m_args' = [m_args EXCEPT !.course_list = l]
         /\ m_result' = [computed |-> TRUE,
                         result |-> find_best_match(m_args.course_name, l,
                                                    m_args.threshold)]
    /\ op' = [kind |-> "reorder", first |-> m_result.result]
    /\ UNCHANGED <<gui_vars, gpa_vars, score_vars, merge_vars>>

OrderNext == OrderCall \/ OrderShuffle

SpecOrder == OrderInit /\ [][OrderNext]_vars

\* the positions of course_list whose boosted score is the highest of the list
TopPositions(course_name, course_list) ==
    LET score == ScoresFrom(course_name, course_list, 1)
    IN { i \in DOMAIN course_list :
           \A j \in DOMAIN course_list : FracLeq(score[j], score[i]) }

FirstOf(S) == CHOOSE i \in S : \A j \in S : i <= j

\* C21: when several candidates have the same highest boosted score,
\* find_best_match tracks the first of them in the supplied list: a returned
\* match is that candidate with its score, and no match is returned exactly
\* when that candidate fails the acceptance test. The same candidates in
\* another order give the same result unless distinct candidates tie at the
\* top.
C21_TieKeepsFirst ==
    m_result.computed /\ m_args.course_list # <<>> =>
        LET name == m_args.course_name
            list == m_args.course_list
            top == TopPositions(name, list)
            first == list[FirstOf(top)]
        IN /\ IF PassesBoth(name, first, m_args.threshold)
              THEN /\ m_result.result.match # None
                   /\ m_result.result.match = first
                   /\ FracEq(m_result.result.similarity,
                             adjusted_similarity(name, first))
              ELSE m_result.result = NoMatch
           /\ (op.kind = "reorder" /\ \A i, j \in top : list[i] = list[j])
                  => m_result.result = op.first

\* "Biology" against <<"biology", "Biology">> after <<"Biology", "biology">>:
\* both candidates score 1.5, each call returns the candidate it met first
C21_Witness ==
    /\ op.kind = "reorder"
    /\ m_result.result.match # None
    /\ op.first.match # None
    /\ m_result.result.match = m_args.course_list[1]
    /\ op.first.match = m_args.course_list[2]
    /\ m_args.course_list[1] # m_args.course_list[2]
    /\ {1, 2} \subseteq TopPositions(m_args.course_name, m_args.course_list)

\* the score the claims give a candidate: the base ratio, plus half the summed
\* length of the shared tokens over the length of the input name
BoostedScore(course_name, course) ==
    LET shared == TokensOf(course_name) \cap TokensOf(course)
        base == string_similarity(course_name, course)
    IN IF shared = {} THEN base
       ELSE FracAdd(base, Frac(SumLen(shared), 2 * Len(course_name)))

\* C22: the score find_best_match compares is the base ratio for a candidate
\* that shares no token with the input and base ratio + 0.5 x (summed length
\* of the distinct shared tokens) / len(input) for one that does: the returned
\* candidate is the first whose such score is the highest of the list, the
\* returned score is that score, and nothing is returned when that candidate
\* shares no token or scores below the threshold.
C22_BoostByInputLength ==
    m_result.computed /\ m_args.course_list # <<>> =>
        LET name == m_args.course_name
            list == m_args.course_list
            score == [i \in DOMAIN list |-> BoostedScore(name, list[i])]
            best == FirstOf({ i \in DOMAIN list :
                                \A j \in DOMAIN list : FracLeq(score[j], score[i]) })
        IN IF /\ TokensOf(name) \cap TokensOf(list[best]) # {}
              /\ FracLeq(m_args.threshold, score[best])
           THEN /\ m_result.result.match # None
                /\ m_result.result.match = list[best]
                /\ FracEq(m_result.result.similarity, score[best])
           ELSE m_result.result = NoMatch

\* "Biology Honors" against "Math A1" and "Biology": the unboosted 0.19 of
\* the first loses to 0.67 + 0.5 x 7 / 14 of the second, whose length is 7
C22_Witness ==
    /\ m_result.computed
    /\ m_result.result.match # None
    /\ Len(m_result.result.match) # Len(m_args.course_name)
    /\ FracLess(string_similarity(m_args.course_name, m_result.result.match),
                m_result.result.similarity)
    /\ \E i \in DOMAIN m_args.course_list :
         /\ TokensOf(m_args.course_name) \cap TokensOf(m_args.course_list[i]) = {}
         /\ FracLess(Frac(0, 1),
                     string_similarity(m_args.course_name, m_args.course_list[i]))
-----------------------------------------------------------------------------
(* Requirement progress as a function of the recorded course names *)

\* how many records of the six terms have the course name
TimesRecorded(entries, name) ==
    Cardinality({ p \in AllRecords(entries) : CourseAt(entries, p) = name })

\* one list with each name of S as many times as it is recorded in entries,
\* every record with the same subject, score 0 and scale "Not Included"
RECURSIVE NamesOnly(_, _)
NamesOnly(S, entries) ==
    IF S = {} THEN <<>>
    ELSE LET name == CHOOSE x \in S : TRUE
         IN [i \in 1..TimesRecorded(entries, name) |->
                Entry("Electives", name, 0, "Not Included")]
            \o NamesOnly(S \ {name}, entries)

\* the window with that list as its only term
NamesOnlyEntries(entries) ==
    [EmptyGrades EXCEPT !["10"]["Fall"] = NamesOnly(RecordedNames(entries), entries)]

\* C26: requirement progress depends only on the course names: the progress
\* and the check_graduation result of a course list are those of the list
\* that has the same names the same number of times with another subject,
\* score 0 and scale "Not Included", all in one term; so two lists with the
\* same multiset of names give the same result.
C26_NamesDecideProgress ==
    op.kind = "check" =>
        LET names_only == update_student_data(NamesOnlyEntries(course_entries))
        IN /\ student = names_only
           /\ failed_reasons = check_graduation(names_only)

\* "Technology" recorded under subject Science with score 0 and scale
\* "Not Included" counts for the Technology requirement
C26_Witness ==
    /\ op.kind = "check"
    /\ student.requirements["Technology"].taken >= 1
    /\ \A p \in AllRecords(course_entries) :
         CourseAt(course_entries, p) = "Technology"
            => LET e == course_entries[p[1][1]][p[1][2]][p[2]]
               IN e.subject = "Science" /\ e.score = 0 /\ e.scale = "Not Included"

-----------------------------------------------------------------------------
(* Specification SpecCollect: courses are added to one term of the window   *)
(* and the Calculate GPA button collects them with get_semester_grades.     *)

\* what the user types: subjects that repeat, and subjects that end like a
\* generated key
CollectInputs ==
    { Entry("Science", "Biology", 95, "AP"),
      Entry("Science", "Chemistry", 85, "CNCC"),
      Entry("Science_1", "Physics", 75, "AP"),
      Entry("Science_1_1", "Biology", 65, "AP"),
      Entry("", "Biology", 90, "AP") }

CollectInit ==
    /\ op = [kind |-> "init"]
    /\ GuiIdle /\ GpaIdle /\ MatchIdle /\ ScoreIdle /\ MergeIdle

\* the dictionary values of get_semester_grades(grade, semester), in order
CollectedRecords(entries, grade, semester) ==
    LET d == get_semester_grades(entries, grade, semester)
    IN [i \in DOMAIN d |-> d[i].value]

\* GradeTracker.calculate_gpa: all_grades is collected from the six terms and
\* the overall GPA is computed from it
GradeTracker_calculate_gpa ==
    /\ grades' = [y \in Range(Years) |-> [s \in Range(Semesters) |->
                     CollectedRecords(course_entries, y, s)]]
    /\ gpa_args' = <<None, None>>
    /\ gpa' = calculate_gpa(grades', None, None)
    /\ op' = [kind |-> "gpa"]
    /\ UNCHANGED <<gui_vars, match_vars, score_vars, merge_vars>>

CollectNext ==
    \/ /\ \E in \in CollectInputs : add_course("10", "Fall", in)
       /\ UNCHANGED <<gpa_vars, match_vars, score_vars, merge_vars>>
    \/ GradeTracker_calculate_gpa

SpecCollect == CollectInit /\ [][CollectNext]_vars

\* C27: get_semester_grades loses no course: the keys "<subject>_<k>" it
\* generates for the entries of a term are pairwise distinct, whatever the
\* subjects and however many entries share one, and the mapping has exactly
\* one record per entry, that of the entry.
C27_OneRecordPerEntry ==
    op.kind = "gpa" =>
        \A t \in AllTerms :
            LET entries == course_entries[t[1]][t[2]]
                d == get_semester_grades(course_entries, t[1], t[2])
            IN /\ Len(d) = Len(entries)
               /\ \A i, j \in DOMAIN d : d[i].key = d[j].key => i = j
               /\ \A i \in DOMAIN d :
                    /\ d[i].value.subject = entries[i].subject
                    /\ d[i].value.course = entries[i].course
                    /\ d[i].value.score = entries[i].score
               /\ Len(grades[t[1]][t[2]]) = Len(entries)

\* two courses of subject "Science" and one of subject "Science_1": the keys
\* are "Science_1", "Science_2" and "Science_1_1"
C27_Witness ==
    /\ op.kind = "gpa"
    /\ Len(course_entries["10"]["Fall"]) = 3
    /\ LET d == get_semester_grades(course_entries, "10", "Fall")
       IN { d[i].key : i \in DOMAIN d } = {"Science_1", "Science_2", "Science_1_1"}

-----------------------------------------------------------------------------
(* Specification SpecMerge: the Merge TGRT Files dialog.  The user selects  *)
(* files for the selectors and an output file, and presses Merge Files.     *)

Ann == [name |-> "Ann", student_id |-> "S1"]
Bob == [name |-> "Bob", student_id |-> "S2"]

\* .tgrt files on disk: a file with courses in three terms, a file whose year
\* 10 has no Spring, a file without courses, a file of another student
TgrtFiles ==
    { [student |-> Ann,
       courses |-> ("10" :> ("Fall" :> << FileCourse("Science", "Biology", 95, "AP") >>
                             @@ "Spring" :> << FileCourse("Science", "Chemistry", 85, "AP") >>))
                   @@ ("11" :> ("Fall" :> << FileCourse("Chinese", "Chinese", 90, "CNCC") >>
                                @@ "Spring" :> << >>))],
      [student |-> Ann,
       courses |-> ("10" :> ("Fall" :> << FileCourse("Science", "Physics", 75, "AP"),
                                          FileCourse("Chinese", "Chinese", 80, "CNCC") >>))],
      [student |-> Ann, courses |-> [y \in {} |-> <<>>]],
      [student |-> Bob,
       courses |-> ("10" :> ("Fall" :> << FileCourse("Science", "Biology", 60, "AP") >>
                             @@ "Spring" :> << >>))] }

\* the selectors the user browses with
UsedSelectors == {1, 2, 3}

OutputFiles == {"merged.tgrt"}

MergeInit ==
    /\ merge_dialog = DialogOpened
    /\ merged_data = <<>>
    /\ op = [kind |-> "init"]
    /\ GuiIdle /\ GpaIdle /\ MatchIdle /\ ScoreIdle

\* select_file of selector k: the user picks a file
select_file(k, data) ==
    /\ merge_dialog' = [merge_dialog EXCEPT !.semester_file_paths[k] = <<data>>]
    /\ op' = [kind |-> "select"]
    /\ UNCHANGED merged_data

\* select_output_file: the user picks the file to write
select_output_file(file_path) ==
    /\ merge_dialog' = [merge_dialog EXCEPT !.output_file = file_path]
    /\ op' = [kind |-> "select"]
    /\ UNCHANGED merged_data

\* on_merge: fewer than two files or no output file is a warning, files of
\* different students are an error; otherwise the merged record is written
\* and the dialog is destroyed (the next merge starts from a new dialog)
on_merge ==
    LET semester_file_paths == merge_dialog.semester_file_paths
        selected_files == SelectedFiles(semester_file_paths)
    IN IF Cardinality(DOMAIN selected_files) < 2 \/ merge_dialog.output_file = ""
       THEN /\ op' = [kind |-> "merge", outcome |-> "warning"]
            /\ UNCHANGED merge_vars
       ELSE IF ~SameStudent(semester_file_paths)
       THEN /\ op' = [kind |-> "merge", outcome |-> "error"]
            /\ UNCHANGED merge_vars
       ELSE /\ merged_data' = << [student |-> StudentInfo(semester_file_paths),
                                  courses |-> MergeFrom(semester_file_paths, 1,
                                                        EmptyCourses)] >>
            /\ merge_dialog' = DialogOpened
            /\ op' = [kind |-> "merge", outcome |-> "success",
                      semester_file_paths |-> semester_file_paths]

MergeNext ==
    /\ \/ \E k \in UsedSelectors, data \in TgrtFiles : select_file(k, data)
       \/ \E file_path \in OutputFiles : select_output_file(file_path)
       \/ on_merge
    /\ UNCHANGED <<gui_vars, gpa_vars, match_vars, score_vars>>

SpecMerge == MergeInit /\ [][MergeNext]_vars

\* the year and the term of the k-th of the six term slots
SlotYear(k) == Years[((k - 1) \div Len(Semesters)) + 1]
SlotTerm(k) == Semesters[((k - 1) % Len(Semesters)) + 1]

\* C30: after a successful merge each of the six term slots of the merged
\* record holds exactly the course list the file selected for that slot
\* stores under that year and term, and is empty when no file was selected
\* for the slot or the file has no such term; nothing a file stores under
\* another term is copied.
C30_SlotFromItsFile ==
    (op.kind = "merge" /\ op.outcome = "success") =>
        \A k \in 1..(Len(Years) * Len(Semesters)) :
            LET y == SlotYear(k)
                t == SlotTerm(k)
                path == op.semester_file_paths[k]
            IN merged_data[1].courses[y][t] =
                 IF path = <<>> THEN <<>>
                 ELSE IF y \in DOMAIN path[1].courses /\ t \in DOMAIN path[1].courses[y]
                      THEN path[1].courses[y][t]
                      ELSE <<>>

\* the file with courses in 10 Fall, 10 Spring and 11 Fall is selected for
\* 10 Fall only, the file without 10 Spring for 10 Spring: the merged record
\* has the first file's 10 Fall course and nothing else
C30_Witness ==
    /\ op.kind = "merge" /\ op.outcome = "success"
    /\ op.semester_file_paths[3] = <<>>
    /\ Len(merged_data[1].courses["10"]["Fall"]) = 1
    /\ merged_data[1].courses["10"]["Spring"] = <<>>
    /\ merged_data[1].courses["11"]["Fall"] = <<>>
    /\ op.semester_file_paths[1] # <<>>
    /\ op.semester_file_paths[2] # <<>>
    /\ "11" \in DOMAIN op.semester_file_paths[1][1].courses
    /\ "10" \in DOMAIN op.semester_file_paths[2][1].courses

=============================================================================
